---------------------------- MODULE Spec2Model ----------------------------
(***************************************************************************)
(* Carrier-normalisation core of ScheduleTracking: the fan-out aggregator  *)
(* (ScheduleController.getSchedules, TrackingController.getTracking), the  *)
(* transport client (HttpClient and its interceptors), the credential      *)
(* manager (AuthManager: OAuth2 token cache, API-key resolution) and the   *)
(* CMA CGM carrier router.                                                 *)
(*                                                                         *)
(* Four specifications share the module:                                   *)
(*   Spec     one fan-out request: carrier calls, retries, the response    *)
(*   SpecAuth concurrent requests for the OAuth2 carriers: the token cache *)
(*   SpecKey  AuthManager.getAuthHeaders on the API-key path               *)
(*   SpecCMA  CMACGMAdapter.getSchedule                                    *)
(***************************************************************************)
EXTENDS Integers, Sequences, FiniteSets, TLC

VARIABLES
    now,            \* Date.now(), in milliseconds
    authType,       \* config.auth.type of every carrier (config/carriers/*.json)
    env,            \* process.env: the set of variables that hold a value
    tokenCache,     \* AuthManager.tokenCache, by carrier
    issued,         \* history: per carrier, how many tokens the token URL has issued
    clients,        \* per connection: the requests <<kind, carrier>> its client may send
    query,          \* the HTTP requests being served by a controller
    calls,          \* per query and carrier: the carrier call of the fan-out
    keyIn,          \* SpecKey: the arguments of getAuthHeaders and process.env
    keyOut,         \* SpecKey: what getAuthHeaders returned or threw
    cmaParams,      \* SpecCMA: the parameter bag given to getSchedule
    cmaDelegated,   \* SpecCMA: the sub-adapters getSchedule delegated to
    adIn,           \* adapter specifications: the arguments of one adapter call
    adOut,          \* adapter specifications: what the call did and how it ended
    mapIn,          \* mapper specifications: the vendor payload given to a mapper
    mapOut          \* mapper specifications: what the mapper returned or threw

sysVars == <<now, authType, env, tokenCache, issued, clients, query, calls>>
keyVars == <<keyIn, keyOut>>
cmaVars == <<cmaParams, cmaDelegated>>
adVars == <<adIn, adOut>>
mapVars == <<mapIn, mapOut>>
vars == <<now, authType, env, tokenCache, issued, clients, query, calls,
          keyIn, keyOut, cmaParams, cmaDelegated, adIn, adOut, mapIn, mapOut>>

(***************************************************************************)
(* Bounds of the model.                                                    *)
(***************************************************************************)
NQ == 2            \* controller requests served concurrently
MaxRecs == 2       \* records in one carrier's answer
MaxAttempts == 3   \* HTTP attempts of one call after which the vendor stops answering 401
MaxTicks == 1      \* clock steps
MaxParams == 4     \* parameters present in one CMA CGM parameter bag
DaySlack == 2      \* days taken on either side of each end of the Maersk date window
MaxItems == 2      \* records in one vendor payload given to a mapper
MaxClock == 1      \* milliseconds that pass while a payload is mapped again
MaxRuns == 2       \* applications of a mapper to one payload

Queries == 1..NQ

(***************************************************************************)
(* Carriers and their configuration.                                       *)
(***************************************************************************)
Carriers == {"CMCG", "HMM", "MAERSK", "ZIM"}

\* CarrierAdapterFactory.adapters: the registered adapters, in insertion order
AdapterKeys == <<"CMCG", "HMM", "MAERSK", "ZIM">>

Kinds == {"schedule", "tracking"}

CarrierIdentifiers == {"cma-cgm", "hmm", "zim", "maersk", "all"}

CARRIER_CODE_MAP ==
    ("cma-cgm" :> "CMCG") @@ ("hmm" :> "HMM") @@ ("zim" :> "ZIM") @@ ("maersk" :> "MAERSK")

getCarrierCodes(carrierIdentifier) ==
    IF carrierIdentifier = "all" THEN AdapterKeys
    ELSE <<CARRIER_CODE_MAP[carrierIdentifier]>>

Range(s) == {s[i] : i \in 1..Len(s)}

\* The configurations the deployment documents: Maersk is OAuth2, HMM and ZIM
\* are API-key carriers, CMA CGM supports either (API key in README.md,
\* OAuth2 in COMPLETE_GUIDE.md).
ApiKeyDeployment ==
    [c \in Carriers |-> IF c = "MAERSK" THEN "oauth2" ELSE "apikey"]

OAuth2Deployment ==
    [c \in Carriers |-> IF c \in {"MAERSK", "CMCG"} THEN "oauth2" ELSE "apikey"]

(***************************************************************************)
(* Time.  Date.now() is in milliseconds, expires_in in seconds.            *)
(***************************************************************************)
TickMs == 60 * 1000
RefreshBufferMs == 5 * 60 * 1000
ExpiresInChoices == {360, 420}   \* expires_in values the token URL answers with

(***************************************************************************)
(* AuthManager: the OAuth2 token cache.                                    *)
(***************************************************************************)
NoToken == [token |-> 0, expiresAt |-> 0]

\* Mutation of CachedValid: a token with exactly five minutes left is served.
CachedValid_NoStrict(cached, t) ==
    cached.token # 0 /\ cached.expiresAt >= t + RefreshBufferMs

\* AuthManager.getOAuth2Token, the cache test
CachedValid(cached, t) ==
    cached.token # 0 /\ cached.expiresAt > t + RefreshBufferMs

\* the lifetime a cache entry has left at time t (-1: no entry)
Left(cached, t) == IF cached.token = 0 THEN -1 ELSE cached.expiresAt - t

\* AuthManager.getOAuth2Token, the credentials read from the environment
HasCredentials(c, e) ==
    /\ (<<c, "CLIENT_ID">> \in e \/ <<c, "CONSUMER_KEY">> \in e)
    /\ (<<c, "CLIENT_SECRET">> \in e \/ <<c, "SECRET_KEY">> \in e)

\* AuthManager.getApiKey as the concurrent system uses it: the key of the
\* endpoint or the carrier-wide default key holds a value (the full
\* resolution order is SpecKey's subject)
HasApiKey(c, kind, e) == <<c, kind>> \in e \/ <<c, "API_KEY">> \in e

\* The environment of the concurrent system: Maersk's consumer key and secret
\* key, the default keys of CMA CGM and HMM, ZIM's tracking key only, and of
\* CMA CGM's OAuth2 credentials the client id without the secret.
DeployedEnv ==
    {<<"MAERSK", "CONSUMER_KEY">>, <<"MAERSK", "SECRET_KEY">>,
     <<"CMCG", "API_KEY">>, <<"CMCG", "CLIENT_ID">>,
     <<"HMM", "API_KEY">>, <<"ZIM", "tracking">>}

(***************************************************************************)
(* Carrier calls.                                                          *)
(***************************************************************************)
\* pc: idle | token (token request in flight) | http (vendor request in
\*     flight) | done
\* ctx: which getAuthHeaders call is waiting for the token: "request" (the
\*      request interceptor) or "retry" (the 401 handler)
\* attempts: HTTP requests sent to the vendor endpoint for this call
\* sent: the token the last HTTP request carried (0: none, an API key)
\* authHow/authLeft/expiresIn: the last getAuthHeaders call of an OAuth2
\*      carrier: how it answered ("cache", "fetch" while the token request is
\*      in flight, "fetched"), the lifetime left (expiresAt - Date.now()) of
\*      the cache entry it read or stored (-1: no entry), and the expires_in
\*      of the token response it received
\* success/body/n/error: the value the carrier's async callback returned
IdleCall ==
    [pc |-> "idle", ctx |-> "none", attempts |-> 0, sent |-> 0,
     authHow |-> "none", authLeft |-> 0, expiresIn |-> 0,
     success |-> FALSE, body |-> "none", n |-> 0, error |-> "none"]

\* A settled call keeps its result only; its history ends with it.
\* the catch block of the carrier callback: {carrier, success: false, error}
Failed(err) ==
    [IdleCall EXCEPT !.pc = "done", !.success = FALSE, !.error = err]

\* the try block's return: {carrier, carrierName, success: true, schedules}
Succeeded(body, n) ==
    [IdleCall EXCEPT !.pc = "done", !.success = TRUE, !.body = body, !.n = n]

\* The adapters that return the vendor's body as it came (no mapper):
\* CMACGMScheduleAdapter and MaerskScheduleAdapter for schedules,
\* ZIMTrackingAdapter for tracking.
PassThrough(kind, c) ==
    \/ kind = "schedule" /\ c \in {"CMCG", "MAERSK"}
    \/ kind = "tracking" /\ c = "ZIM"

\* What a 2xx answer can make the adapter return: an array of n records, or,
\* from a pass-through adapter, an empty body or a body that is no array
\* (an HTML page, an object).
Bodies(kind, c) ==
    {<<"array", k>> : k \in 0..MaxRecs}
        \cup (IF PassThrough(kind, c) THEN {<<"falsy", 0>>, <<"nonarray", 0>>} ELSE {})

\* axiosInstance.request once the request interceptor has its headers: the
\* HTTP request leaves for the vendor endpoint
SendHttp(call, tok) ==
    [call EXCEPT !.pc = "http", !.ctx = "none", !.attempts = @ + 1, !.sent = tok]

\* AuthManager.getAuthHeaders up to its first suspension, for a call of
\* carrier c to endpoint `kind` that reads `cached` from the token cache; ctx
\* names the caller.
\* OAuth2: a valid cached token answers at once; otherwise the credentials
\* are read (their absence throws) and the token request is sent.
\* API key: the key resolves or getApiKey throws.
GetAuthHeaders(call, c, kind, ctx, cached) ==
    IF authType[c] = "oauth2"
    THEN LET seen == [call EXCEPT !.authLeft = Left(cached, now), !.expiresIn = 0]
         IN  IF CachedValid(cached, now)
             THEN SendHttp([seen EXCEPT !.authHow = "cache"], cached.token)
             ELSE IF ~HasCredentials(c, env)
             THEN Failed("auth")
             ELSE [seen EXCEPT !.pc = "token", !.ctx = ctx, !.authHow = "fetch"]
    ELSE IF HasApiKey(c, kind, env) THEN SendHttp(call, 0) ELSE Failed("auth")

(***************************************************************************)
(* The fan-out aggregator.                                                 *)
(***************************************************************************)
NoResponse ==
    [status |-> 0, data |-> <<>>, errors |-> <<>>, total |-> 0,
     carriersQueried |-> 0, carriersSucceeded |-> 0, carriersFailed |-> 0]

IdleQuery == [status |-> "idle", kind |-> "none", codes |-> <<>>, response |-> NoResponse]

\* The records of one fulfilled result, each spread with carrier: data.carrier.
\* src and idx identify the vendor record; carrier is the annotation.
WithCarrier(c, call) ==
    [i \in 1..call.n |-> [src |-> c, idx |-> i, carrier |-> c]]

\* Mutation of ErrorEntry: the entry is attributed to no carrier.
ErrorEntry_Unknown(kind, c, call) ==
    [carrier |-> "unknown",
     error |-> IF call.error # "none" THEN call.error
               ELSE IF kind = "schedule" THEN "No schedules returned"
               ELSE "No events returned"]

\* data.error || 'No schedules returned' (getTracking: 'No events returned')
ErrorEntry(kind, c, call) ==
    [carrier |-> c,
     error |-> IF call.error # "none" THEN call.error
               ELSE IF kind = "schedule" THEN "No schedules returned"
               ELSE "No events returned"]

\* One turn of the loop `for (const result of results)`.  Every result is
\* fulfilled: the carrier callback catches whatever its call throws.
\* `data.success && data.schedules` is true of any truthy body; on a body
\* that is no array `data.schedules.map` throws (getSchedules), while
\* getTracking takes the empty array for it.
ProcessResult(kind, acc, c, call) ==
    IF acc.threw THEN acc
    ELSE IF call.success /\ call.body # "falsy"
    THEN IF call.body = "nonarray"
         THEN IF kind = "schedule" THEN [acc EXCEPT !.threw = TRUE] ELSE acc
         ELSE [acc EXCEPT !.data = @ \o WithCarrier(c, call)]
    ELSE [acc EXCEPT !.errors = Append(@, ErrorEntry(kind, c, call))]

\* Mutation of ProcessResults: the results are taken last carrier first.
RECURSIVE ProcessResults_Reversed(_, _, _, _)
ProcessResults_Reversed(kind, codes, cs, i) ==
    IF i = 0 THEN [data |-> <<>>, errors |-> <<>>, threw |-> FALSE]
    ELSE ProcessResult(kind, ProcessResults_Reversed(kind, codes, cs, i - 1),
                       codes[Len(codes) - i + 1], cs[codes[Len(codes) - i + 1]])

RECURSIVE ProcessResults(_, _, _, _)
ProcessResults(kind, codes, cs, i) ==
    IF i = 0 THEN [data |-> <<>>, errors |-> <<>>, threw |-> FALSE]
    ELSE ProcessResult(kind, ProcessResults(kind, codes, cs, i - 1), codes[i], cs[codes[i]])

\* Mutation of BuildResponse: carriersSucceeded counts the merged records.
BuildResponse_CountsRecords(kind, codes, cs) ==
    LET acc == ProcessResults(kind, codes, cs, Len(codes))
    IN  IF acc.threw
        THEN [NoResponse EXCEPT !.status = 500]
        ELSE IF Len(acc.data) = 0 /\ Len(acc.errors) > 0
        THEN [NoResponse EXCEPT !.status = 503, !.errors = acc.errors]
        ELSE [status |-> 200, data |-> acc.data, errors |-> acc.errors,
              total |-> Len(acc.data),
              carriersQueried |-> Len(codes),
              carriersSucceeded |-> Len(acc.data),
              carriersFailed |-> Len(acc.errors)]

\* The response the controller writes once Promise.allSettled has resolved.
BuildResponse(kind, codes, cs) ==
    LET acc == ProcessResults(kind, codes, cs, Len(codes))
    IN  IF acc.threw
        THEN [NoResponse EXCEPT !.status = 500]
        ELSE IF Len(acc.data) = 0 /\ Len(acc.errors) > 0
        THEN [NoResponse EXCEPT !.status = 503, !.errors = acc.errors]
        ELSE [status |-> 200, data |-> acc.data, errors |-> acc.errors,
              total |-> Len(acc.data),
              carriersQueried |-> Len(codes),
              carriersSucceeded |-> Len(codes) - Len(acc.errors),
              carriersFailed |-> Len(acc.errors)]

(***************************************************************************)
(* Actions of the concurrent system.                                       *)
(***************************************************************************)
\* A controller takes a request: carrierCodes.map starts every carrier's
\* call.  A call whose router or sub-adapter throws before any network call
\* (missing parameter, date out of range) settles at once; the others run
\* their request interceptor.
StartQuery(q, kind, id, failFast) ==
    LET codes == getCarrierCodes(id)
        started == [c \in Carriers |->
                      IF c \notin Range(codes) THEN IdleCall
                      ELSE IF c \in failFast THEN Failed("param")
                      ELSE GetAuthHeaders(IdleCall, c, kind, "request", tokenCache[c])]
    IN  /\ query[q].status = "idle"
        /\ failFast \subseteq Range(codes)
        /\ <<kind, id>> \in clients[q]
        /\ query' = [query EXCEPT ![q] = [IdleQuery EXCEPT !.status = "pending",
                                                            !.kind = kind, !.codes = codes]]
        /\ calls' = [calls EXCEPT ![q] = started]
        /\ UNCHANGED <<now, authType, env, clients, tokenCache, issued,
                     keyVars, cmaVars, adVars, mapVars>>

\* The token URL answers a token request.
TokenGranted(q, c, expiresIn) ==
    LET call == calls[q][c]
        entry == [token |-> issued[c] + 1, expiresAt |-> now + expiresIn * 1000]
        after == IF call.ctx = "request"
                 THEN SendHttp([call EXCEPT !.authHow = "fetched",
                                            !.authLeft = Left(entry, now),
                                            !.expiresIn = expiresIn], entry.token)
                 ELSE GetAuthHeaders(call, c, query[q].kind, "request", entry)
    IN  /\ call.pc = "token"
        /\ tokenCache' = [tokenCache EXCEPT ![c] = entry]
        /\ issued' = [issued EXCEPT ![c] = @ + 1]
        /\ calls' = [calls EXCEPT ![q][c] = after]
        /\ UNCHANGED <<now, authType, env, clients, query,
                     keyVars, cmaVars, adVars, mapVars>>

\* The token request fails (error status, timeout): getOAuth2Token throws.
TokenRefused(q, c) ==
    /\ calls[q][c].pc = "token"
    /\ calls' = [calls EXCEPT ![q][c] = Failed("auth")]
    /\ UNCHANGED <<now, authType, env, clients, tokenCache, issued, query,
                     keyVars, cmaVars, adVars, mapVars>>

\* The vendor answers 2xx and the adapter returns a value.
HttpOk(q, c, body) ==
    /\ calls[q][c].pc = "http"
    /\ body \in Bodies(query[q].kind, c)
    /\ calls' = [calls EXCEPT ![q][c] = Succeeded(body[1], body[2])]
    /\ UNCHANGED <<now, authType, env, clients, tokenCache, issued, query,
                     keyVars, cmaVars, adVars, mapVars>>

\* Mutation of OnUnauthorized: the handler calls clearAllTokenCaches.
OnUnauthorized_ClearsAll(q, c) ==
    LET call == calls[q][c]
        after == IF authType[c] = "oauth2"
                 THEN GetAuthHeaders(call, c, query[q].kind, "retry", NoToken)
                 ELSE Failed("http")
    IN  /\ call.pc = "http"
        /\ authType[c] = "oauth2" => call.attempts < MaxAttempts
        /\ tokenCache' = IF authType[c] = "oauth2"
                         THEN [b \in Carriers |-> NoToken] ELSE tokenCache
        /\ calls' = [calls EXCEPT ![q][c] = after]
        /\ UNCHANGED <<now, authType, env, clients, issued, query,
                     keyVars, cmaVars, adVars, mapVars>>

\* Mutation of OnUnauthorized: the handler does not look at the auth type.
OnUnauthorized_AnyAuthType(q, c) ==
    LET call == calls[q][c]
        after == GetAuthHeaders(call, c, query[q].kind, "retry", NoToken)
    IN  /\ call.pc = "http"
        /\ call.attempts < MaxAttempts
        /\ tokenCache' = [tokenCache EXCEPT ![c] = NoToken]
        /\ calls' = [calls EXCEPT ![q][c] = after]
        /\ UNCHANGED <<now, authType, env, clients, issued, query,
                     keyVars, cmaVars, adVars, mapVars>>

\* The response interceptor's error handler on status 401.
OnUnauthorized(q, c) ==
    LET call == calls[q][c]
        after == IF authType[c] = "oauth2"
                 THEN GetAuthHeaders(call, c, query[q].kind, "retry", NoToken)
                 ELSE Failed("http")
    IN  /\ call.pc = "http"
        /\ authType[c] = "oauth2" => call.attempts < MaxAttempts
        /\ tokenCache' = IF authType[c] = "oauth2"
                         THEN [tokenCache EXCEPT ![c] = NoToken] ELSE tokenCache
        /\ calls' = [calls EXCEPT ![q][c] = after]
        /\ UNCHANGED <<now, authType, env, clients, issued, query,
                     keyVars, cmaVars, adVars, mapVars>>

\* The response interceptor's error handler on any other failure: an error
\* status, or a 2xx body the adapter or its mapper rejects ("http"), or no
\* response within the timeout ("timeout"); the adapter rethrows.
HttpFailed(q, c, err) ==
    /\ calls[q][c].pc = "http"
    /\ calls' = [calls EXCEPT ![q][c] = Failed(err)]
    /\ UNCHANGED <<now, authType, env, clients, tokenCache, issued, query,
                     keyVars, cmaVars, adVars, mapVars>>

\* Promise.allSettled resolves and the controller writes the response.
Respond(q) ==
    /\ query[q].status = "pending"
    /\ \A c \in Range(query[q].codes) : calls[q][c].pc = "done"
    /\ query' = [query EXCEPT ![q].status = "responded",
                              ![q].response = BuildResponse(query[q].kind, query[q].codes, calls[q])]
    /\ UNCHANGED <<now, authType, env, clients, tokenCache, issued, calls,
                     keyVars, cmaVars, adVars, mapVars>>

\* Time passes.  The system observes the clock only through token expiry,
\* so the clock starts once a token exists.
Tick ==
    /\ now < MaxTicks * TickMs
    /\ \E c \in Carriers : issued[c] > 0
    /\ now' = now + TickMs
    /\ UNCHANGED <<authType, env, clients, tokenCache, issued, query, calls,
                     keyVars, cmaVars, adVars, mapVars>>

\* The state after construction: an empty token cache, no request taken.
Constructed ==
    /\ now = 0
    /\ tokenCache = [c \in Carriers |-> NoToken]
    /\ issued = [c \in Carriers |-> 0]
    /\ query = [q \in Queries |-> IdleQuery]
    /\ calls = [q \in Queries |-> [c \in Carriers |-> IdleCall]]

\* no call of getAuthHeaders is modelled: an empty configuration and
\* environment, no outcome
NoKeyIn ==
    [auth |-> [type |-> "apikey", primaryKeys |-> [schedule |-> "none"],
               secondaryKeys |-> [schedule |-> "none"], apiKeys |-> [schedule |-> "none"],
               headerNames |-> [schedule |-> "none"], headerName |-> "none"],
     endpointType |-> "none",
     env |-> [k \in {"ZIM_SCHEDULE_PRIMARY_KEY", "ZIM_SCHEDULE_SECONDARY_KEY",
                     "ZIM_SCHEDULE_API_KEY", "ZIM_API_KEY"} |-> "unset"]]

\* the request has not passed the interceptor yet
NoKeyOut == [done |-> FALSE, sent |-> FALSE, header |-> "none", key |-> "none", names |-> <<>>]

KeyIdle == keyIn = NoKeyIn /\ keyOut = NoKeyOut
CmaIdle == cmaParams = {} /\ cmaDelegated = <<>>
AdIdle == adIn = {} /\ adOut = <<>>
MapIdle == mapIn = <<>> /\ mapOut = <<>>

\* Spec: one client sends one request, for one carrier or for all of them, to
\* the deployment with Maersk as its only OAuth2 carrier.
Init ==
    /\ Constructed /\ KeyIdle /\ CmaIdle /\ AdIdle /\ MapIdle
    /\ authType = ApiKeyDeployment
    /\ env = DeployedEnv
    /\ clients = [q \in Queries |->
                    IF q = 1 THEN Kinds \X CarrierIdentifiers ELSE {}]

\* SpecAuth: every client sends one request for an OAuth2 carrier, the first
\* for Maersk, the others for Maersk or CMA CGM, and the requests are served
\* concurrently.
InitAuth ==
    /\ Constructed /\ KeyIdle /\ CmaIdle /\ AdIdle /\ MapIdle
    /\ authType = OAuth2Deployment
    /\ env = DeployedEnv
    /\ clients = [q \in Queries |->
                    IF q = 1 THEN {<<"tracking", "maersk">>}
                    ELSE {<<"tracking", "maersk">>, <<"tracking", "cma-cgm">>}]

Next ==
    \/ \E q \in Queries, kind \in Kinds, id \in CarrierIdentifiers :
         \E failFast \in SUBSET Carriers : StartQuery(q, kind, id, failFast)
    \/ \E q \in Queries, c \in Carriers, e \in ExpiresInChoices : TokenGranted(q, c, e)
    \/ \E q \in Queries, c \in Carriers : TokenRefused(q, c)
    \/ \E q \in Queries, c \in Carriers :
         \E body \in {"array", "falsy", "nonarray"} \X (0..MaxRecs) : HttpOk(q, c, body)
    \/ \E q \in Queries, c \in Carriers : OnUnauthorized(q, c)
    \/ \E q \in Queries, c \in Carriers, err \in {"http", "timeout"} :
         HttpFailed(q, c, err)
    \/ \E q \in Queries : Respond(q)
    \/ Tick

Spec == Init /\ [][Next]_vars

SpecAuth == InitAuth /\ [][Next]_vars

\* SpecPair: two OAuth2 carriers with complete credentials; one client asks
\* for Maersk, the other for CMA CGM, and the requests are served
\* concurrently.
InitPair ==
    /\ Constructed /\ KeyIdle /\ CmaIdle /\ AdIdle /\ MapIdle
    /\ authType = OAuth2Deployment
    /\ env = DeployedEnv \cup {<<"CMCG", "CLIENT_SECRET">>}
    /\ clients = [q \in Queries |->
                    IF q = 1 THEN {<<"tracking", "maersk">>}
                    ELSE {<<"tracking", "cma-cgm">>}]

SpecPair == InitPair /\ [][Next]_vars

(***************************************************************************)
(* SpecLive: the fan-out of Spec with a vendor that may answer 401 to      *)
(* every attempt, and with every request in flight answered in the end.    *)
(* Past MaxAttempts the attempts are not counted and the tokens are not    *)
(* told apart, which keeps the endless retry inside finitely many states.  *)
(***************************************************************************)
\* The response interceptor's error handler on status 401, at an attempt
\* past the count: clearTokenCache, then getAuthHeaders asks for a token.
UnauthorizedAgain(q, c) ==
    LET call == calls[q][c]
    IN  /\ call.pc = "http"
        /\ authType[c] = "oauth2"
        /\ call.attempts = MaxAttempts
        /\ tokenCache' = [tokenCache EXCEPT ![c] = NoToken]
        /\ calls' = [calls EXCEPT ![q][c] =
                        GetAuthHeaders(call, c, query[q].kind, "retry", NoToken)]
        /\ UNCHANGED <<now, authType, env, clients, issued, query,
                     keyVars, cmaVars, adVars, mapVars>>

\* The token URL answers the token request of such an attempt: the token is
\* stored, the retried request passes the request interceptor, which finds
\* the token in the cache, and leaves for the vendor endpoint.
TokenGrantedAgain(q, c, expiresIn) ==
    LET call == calls[q][c]
        entry == [token |-> issued[c], expiresAt |-> now + expiresIn * 1000]
    IN  /\ call.pc = "token"
        /\ call.attempts = MaxAttempts
        /\ tokenCache' = [tokenCache EXCEPT ![c] = entry]
        /\ calls' = [calls EXCEPT ![q][c] =
                        [call EXCEPT !.pc = "http", !.ctx = "none", !.sent = entry.token,
                                     !.authHow = "cache", !.authLeft = Left(entry, now),
                                     !.expiresIn = 0]]
        /\ UNCHANGED <<now, authType, env, clients, issued, query,
                     keyVars, cmaVars, adVars, mapVars>>

NextLive ==
    \/ Next
    \/ \E q \in Queries, c \in Carriers : UnauthorizedAgain(q, c)
    \/ \E q \in Queries, c \in Carriers, e \in ExpiresInChoices : TokenGrantedAgain(q, c, e)

\* the vendor endpoint answers the HTTP request of call (q, c), or the
\* request times out
HttpAnswered(q, c) ==
    \/ \E body \in {"array", "falsy", "nonarray"} \X (0..MaxRecs) : HttpOk(q, c, body)
    \/ OnUnauthorized(q, c)
    \/ UnauthorizedAgain(q, c)
    \/ \E err \in {"http", "timeout"} : HttpFailed(q, c, err)

\* the token URL answers the token request of call (q, c), or it times out
TokenAnswered(q, c) ==
    \/ \E e \in ExpiresInChoices : TokenGranted(q, c, e) \/ TokenGrantedAgain(q, c, e)
    \/ TokenRefused(q, c)

\* every request in flight is answered in the end, and a controller whose
\* calls have all settled writes its response
Fairness ==
    /\ \A q \in Queries, c \in Carriers :
          WF_vars(HttpAnswered(q, c)) /\ WF_vars(TokenAnswered(q, c))
    /\ \A q \in Queries : WF_vars(Respond(q))

SpecLive == Init /\ [][NextLive]_vars /\ Fairness

(***************************************************************************)
(* SpecKey: AuthManager.getAuthHeaders on the API-key path, as the request *)
(* interceptor of HttpClient calls it.                                     *)
(***************************************************************************)
\* `${carrierCode}_API_KEY`
DefaultKeyName == "ZIM_API_KEY"

\* The names a carrier configuration gives the keys of its schedule endpoint.
PrimaryKeyName == "ZIM_SCHEDULE_PRIMARY_KEY"
SecondaryKeyName == "ZIM_SCHEDULE_SECONDARY_KEY"
EndpointKeyName == "ZIM_SCHEDULE_API_KEY"

KeyNames == {PrimaryKeyName, SecondaryKeyName, EndpointKeyName, DefaultKeyName}

\* The endpointType argument: undefined ("none") or a classified endpoint.
EndpointTypes == {"none", "schedule", "tracking"}

\* A map of config.auth (primaryKeys, secondaryKeys, apiKeys, headerNames):
\* without an entry ("none" stands for undefined), or with an entry for the
\* schedule endpoint.
NoMap == [schedule |-> "none"]
ScheduleMap(name) == [schedule |-> name]

\* map?.[endpointType]; "none" stands for undefined
Lookup(map, endpointType) ==
    IF endpointType \in DOMAIN map THEN map[endpointType] ELSE "none"

\* process.env: every variable is unset, holds the empty string, or holds a
\* value; the value of a variable is written as the variable's name.
KeyEnvs == [KeyNames -> {"unset", "", "value"}]

\* AuthManager.getEnvVar
getEnvVar(e, key) == IF e[key] = "value" THEN key ELSE e[key]

\* JavaScript truthiness of what getEnvVar returns
Truthy(v) == v \notin {"unset", "", "none"}

\* The names the error message of getApiKey lists for an endpoint.
errorMessages(auth, endpointType) ==
    SelectSeq(<<Lookup(auth.primaryKeys, endpointType),
                Lookup(auth.secondaryKeys, endpointType),
                Lookup(auth.apiKeys, endpointType)>>,
              LAMBDA name : name # "none")

\* Mutation of getApiKey: the carrier-wide default key is tried first.
getApiKey_DefaultFirst(auth, endpointType, e) ==
    LET primaryKeyEnvVar == Lookup(auth.primaryKeys, endpointType)
        secondaryKeyEnvVar == Lookup(auth.secondaryKeys, endpointType)
        envVarName == Lookup(auth.apiKeys, endpointType)
    IN  IF Truthy(getEnvVar(e, DefaultKeyName))
        THEN [threw |-> FALSE, key |-> getEnvVar(e, DefaultKeyName), names |-> <<>>]
        ELSE IF primaryKeyEnvVar # "none" /\ Truthy(getEnvVar(e, primaryKeyEnvVar))
        THEN [threw |-> FALSE, key |-> getEnvVar(e, primaryKeyEnvVar), names |-> <<>>]
        ELSE IF secondaryKeyEnvVar # "none" /\ Truthy(getEnvVar(e, secondaryKeyEnvVar))
        THEN [threw |-> FALSE, key |-> getEnvVar(e, secondaryKeyEnvVar), names |-> <<>>]
        ELSE IF envVarName # "none" /\ Truthy(getEnvVar(e, envVarName))
        THEN [threw |-> FALSE, key |-> getEnvVar(e, envVarName), names |-> <<>>]
        ELSE IF endpointType # "none" /\ Len(errorMessages(auth, endpointType)) > 0
        THEN [threw |-> TRUE, key |-> "none", names |-> errorMessages(auth, endpointType)]
        ELSE [threw |-> TRUE, key |-> "none", names |-> <<DefaultKeyName>>]

\* AuthManager.getApiKey: the key, or the error with the variable names its
\* message lists
getApiKey(auth, endpointType, e) ==
    LET primaryKeyEnvVar == Lookup(auth.primaryKeys, endpointType)
        secondaryKeyEnvVar == Lookup(auth.secondaryKeys, endpointType)
        envVarName == Lookup(auth.apiKeys, endpointType)
    IN  IF primaryKeyEnvVar # "none" /\ Truthy(getEnvVar(e, primaryKeyEnvVar))
        THEN [threw |-> FALSE, key |-> getEnvVar(e, primaryKeyEnvVar), names |-> <<>>]
        ELSE IF secondaryKeyEnvVar # "none" /\ Truthy(getEnvVar(e, secondaryKeyEnvVar))
        THEN [threw |-> FALSE, key |-> getEnvVar(e, secondaryKeyEnvVar), names |-> <<>>]
        ELSE IF envVarName # "none" /\ Truthy(getEnvVar(e, envVarName))
        THEN [threw |-> FALSE, key |-> getEnvVar(e, envVarName), names |-> <<>>]
        ELSE IF Truthy(getEnvVar(e, DefaultKeyName))
        THEN [threw |-> FALSE, key |-> getEnvVar(e, DefaultKeyName), names |-> <<>>]
        ELSE IF endpointType # "none" /\ Len(errorMessages(auth, endpointType)) > 0
        THEN [threw |-> TRUE, key |-> "none", names |-> errorMessages(auth, endpointType)]
        ELSE [threw |-> TRUE, key |-> "none", names |-> <<DefaultKeyName>>]

\* AuthManager.getAuthHeaders, the apikey branch: the header name
headerName(auth, endpointType) ==
    IF Lookup(auth.headerNames, endpointType) # "none"
    THEN Lookup(auth.headerNames, endpointType)
    ELSE IF auth.headerName # "none" THEN auth.headerName ELSE "KeyId"

\* The request interceptor: the headers are merged into the request and the
\* request is sent, or getAuthHeaders throws and nothing is sent.
Intercept(in) ==
    LET got == getApiKey(in.auth, in.endpointType, in.env)
    IN  IF got.threw
        THEN [done |-> TRUE, sent |-> FALSE, header |-> "none", key |-> "none",
              names |-> got.names]
        ELSE [done |-> TRUE, sent |-> TRUE, header |-> headerName(in.auth, in.endpointType),
              key |-> got.key, names |-> <<>>]

KeyConfigs ==
    [type : {"apikey"},
     primaryKeys : {NoMap, ScheduleMap(PrimaryKeyName)},
     secondaryKeys : {NoMap, ScheduleMap(SecondaryKeyName)},
     apiKeys : {NoMap, ScheduleMap(EndpointKeyName)},
     headerNames : {NoMap, ScheduleMap("Ocp-Apim-Subscription-Key")},
     headerName : {"none", "X-API-Key"}]

KeyInputs == [auth : KeyConfigs, endpointType : EndpointTypes, env : KeyEnvs]

\* one outbound request passes the request interceptor
Authenticate ==
    /\ keyOut = NoKeyOut
    /\ keyOut' = Intercept(keyIn)
    /\ UNCHANGED <<keyIn, sysVars, cmaVars, adVars, mapVars>>

InitKey ==
    /\ Constructed /\ CmaIdle /\ AdIdle /\ MapIdle
    /\ authType = ApiKeyDeployment /\ env = DeployedEnv
    /\ clients = [q \in Queries |-> {}]
    /\ keyIn \in KeyInputs
    /\ keyOut = NoKeyOut

NextKey == Authenticate

SpecKey == InitKey /\ [][NextKey]_vars

(***************************************************************************)
(* SpecCMA: CMACGMAdapter.getSchedule, the CMA CGM carrier router.         *)
(***************************************************************************)
\* The query parameters getSchedule reads.
CmaParamNames ==
    {"placeOfLoading", "placeOfDischarge", "unLocodePlaceOfLoading",
     "unLocodePlaceOfDischarge", "voyageCode", "carrierVoyageNumber", "vesselIMO",
     "vesselIMONumber", "from", "startDate", "to", "endDate", "portCode",
     "countryCode", "serviceCode", "carrierServiceCode", "lineCode",
     "zoneFromCode", "zoneToCode"}

\* A parameter bag is the set of the parameters that hold a truthy value (an
\* absent parameter and an empty string are both falsy).
CmaBags == {bag \in SUBSET CmaParamNames : Cardinality(bag) <= MaxParams}

\* `(placeOfLoading || unLocodePlaceOfLoading) && (placeOfDischarge || ...)`
RouteTrigger(params) ==
    /\ ("placeOfLoading" \in params \/ "unLocodePlaceOfLoading" \in params)
    /\ ("placeOfDischarge" \in params \/ "unLocodePlaceOfDischarge" \in params)

\* `serviceCode || lineCode || (zoneFromCode && zoneToCode)`, with
\* serviceCode = params.serviceCode || params.carrierServiceCode
ProformaTrigger(params) ==
    \/ "serviceCode" \in params \/ "carrierServiceCode" \in params
    \/ "lineCode" \in params
    \/ ("zoneFromCode" \in params /\ "zoneToCode" \in params)

\* `voyageCode || vesselIMO || (from && to) || portCode || countryCode`, with
\* the aliases carrierVoyageNumber, vesselIMONumber, startDate and endDate
VoyageTrigger(params) ==
    \/ "voyageCode" \in params \/ "carrierVoyageNumber" \in params
    \/ "vesselIMO" \in params \/ "vesselIMONumber" \in params
    \/ (/\ ("from" \in params \/ "startDate" \in params)
        /\ ("to" \in params \/ "endDate" \in params))
    \/ "portCode" \in params
    \/ "countryCode" \in params

\* Mutation of CmaRoute: the Proforma trigger is tested before the Route trigger.
CmaRoute_ProformaFirst(params) ==
    IF ProformaTrigger(params) THEN "proformaAdapter"
    ELSE IF RouteTrigger(params) THEN "routeAdapter"
    ELSE IF VoyageTrigger(params) THEN "voyageAdapter"
    ELSE "scheduleAdapter"

\* Mutation of CmaRoute: the Voyage trigger is tested before the Proforma trigger.
CmaRoute_VoyageFirst(params) ==
    IF RouteTrigger(params) THEN "routeAdapter"
    ELSE IF VoyageTrigger(params) THEN "voyageAdapter"
    ELSE IF ProformaTrigger(params) THEN "proformaAdapter"
    ELSE "scheduleAdapter"

\* CMACGMAdapter.getSchedule: the sub-adapter whose getSchedule it returns
CmaRoute(params) ==
    IF RouteTrigger(params) THEN "routeAdapter"
    ELSE IF ProformaTrigger(params) THEN "proformaAdapter"
    ELSE IF VoyageTrigger(params) THEN "voyageAdapter"
    ELSE "scheduleAdapter"

\* one call of CMACGMAdapter.getSchedule
CmaGetSchedule ==
    /\ cmaDelegated = <<>>
    /\ cmaDelegated' = Append(cmaDelegated, CmaRoute(cmaParams))
    /\ UNCHANGED <<cmaParams, sysVars, keyVars, adVars, mapVars>>

InitCMA ==
    /\ Constructed /\ KeyIdle /\ AdIdle /\ MapIdle
    /\ authType = ApiKeyDeployment /\ env = DeployedEnv
    /\ clients = [q \in Queries |-> {}]
    /\ cmaParams \in CmaBags
    /\ cmaDelegated = <<>>

NextCMA == CmaGetSchedule

SpecCMA == InitCMA /\ [][NextCMA]_vars

(***************************************************************************)
(* SpecAdapters: one call of a carrier adapter, from the carrier router    *)
(* through the sub-adapter it delegates to, up to the vendor's answer.     *)
(***************************************************************************)
\* config.apis of each carrier: the endpoints a deployment can configure
Apis(c) ==
    CASE c = "HMM" -> {"schedule", "ptpSchedule", "portSchedule", "tracking"}
      [] c = "MAERSK" -> {"schedule", "pointToPoint", "portSchedule", "tracking"}
      [] c = "CMCG" -> {"schedule", "route", "proforma", "voyage", "tracking"}
      [] c = "ZIM" -> {"schedule", "tracking"}

\* The deployments taken: every endpoint configured, or all but one.
ApiConfigs(c) == {Apis(c)} \cup {Apis(c) \ {a} : a \in Apis(c)}

\* The parameters the HMM router and its schedule adapters read.
HmmParamNames ==
    {"carrierVoyageNumber", "fromLocationCode", "toLocationCode", "periodDate",
     "UNLocationCode", "startDate", "endDate"}

\* The parameters the Maersk router and its schedule adapters test.
MaerskParamNames ==
    {"placeOfReceipt", "placeOfDelivery", "UNLocationCode", "date", "startDate",
     "endDate", "vesselIMONumber", "carrierVoyageNumber", "carrierServiceCode"}

\* The parameters a ZIM schedule query can carry: the locations of the
\* extended query (originCode, destCode) and the ones the adapter reads.
ZimParamNames == {"originCode", "destCode", "UNLocationCode", "startDate", "endDate"}

\* The references the tracking adapters test.
TrackingParamNames ==
    {"carrierBookingReference", "transportDocumentReference", "equipmentReference"}

\* What a sub-adapter throws before it calls the transport client.
NotConfigured == "API endpoint not configured"
StartOutOfRange == "Start Date must be within 90 days past and 180 days future from today"
EndOutOfRange == "End Date must be within 90 days past and 180 days future from today"
NoThrow == "none"

IsOutOfRange(thrown) == thrown \in {StartOutOfRange, EndOutOfRange}

\* the error is one of the `requires ... parameter` errors
IsMissingParameter(thrown) ==
    thrown \notin {NoThrow, NotConfigured, StartOutOfRange, EndOutOfRange}

\* Mutation of HMMScheduleAdapter: the voyage number is not required.
HMMScheduleAdapter_NoCheck(in) ==
    IF "schedule" \notin in.apis THEN NotConfigured ELSE NoThrow

\* HMMScheduleAdapter.getSchedule (Vessel Schedule), up to httpClient.post
HMMScheduleAdapter(in) ==
    IF "schedule" \notin in.apis THEN NotConfigured
    ELSE IF "carrierVoyageNumber" \notin in.params
    THEN "HMM Schedule API requires carrierVoyageNumber (vvdCode) parameter"
    ELSE NoThrow

\* HMMPTPScheduleAdapter.getSchedule, up to httpClient.post
HMMPTPScheduleAdapter(in) ==
    LET fromLocationCode == "fromLocationCode" \in in.params \/ "UNLocationCode" \in in.params
        toLocationCode == "toLocationCode" \in in.params
        periodDate == "periodDate" \in in.params \/ "startDate" \in in.params
    IN  IF "ptpSchedule" \notin in.apis THEN NotConfigured
        ELSE IF ~fromLocationCode
        THEN "HMM PTP Schedule API requires fromLocationCode parameter"
        ELSE IF ~toLocationCode
        THEN "HMM PTP Schedule API requires toLocationCode parameter"
        ELSE IF ~periodDate
        THEN "HMM PTP Schedule API requires periodDate parameter"
        ELSE NoThrow

\* HMMPortScheduleAdapter.getSchedule, up to httpClient.post
HMMPortScheduleAdapter(in) ==
    IF "portSchedule" \notin in.apis THEN NotConfigured
    ELSE IF "UNLocationCode" \notin in.params
    THEN "HMM Port Schedule API requires UNLocationCode (portCode) parameter"
    ELSE IF "startDate" \notin in.params
    THEN "HMM Port Schedule API requires startDate (durationFrom) parameter"
    ELSE IF "endDate" \notin in.params
    THEN "HMM Port Schedule API requires endDate (durationTo) parameter"
    ELSE NoThrow

\* Mutation of HmmRoute: the Point-to-Point trigger is tested first.
HmmRoute_PTPFirst(params) ==
    IF {"fromLocationCode", "toLocationCode", "periodDate"} \subseteq params
    THEN "ptpScheduleAdapter"
    ELSE IF "carrierVoyageNumber" \in params THEN "scheduleAdapter"
    ELSE IF {"UNLocationCode", "startDate", "endDate"} \subseteq params
    THEN "portScheduleAdapter"
    ELSE "scheduleAdapter"

\* HMMAdapter.getSchedule: the sub-adapter whose getSchedule it returns
HmmRoute(params) ==
    IF "carrierVoyageNumber" \in params THEN "scheduleAdapter"
    ELSE IF {"fromLocationCode", "toLocationCode", "periodDate"} \subseteq params
    THEN "ptpScheduleAdapter"
    ELSE IF {"UNLocationCode", "startDate", "endDate"} \subseteq params
    THEN "portScheduleAdapter"
    ELSE "scheduleAdapter"

\* milliseconds are counted in hours: every instant the guard compares is a
\* whole hour when zone offsets are whole hours
HoursPerDay == 24
\* `minDate.getDate() - 90` and `maxDate.getDate() + 180`
PastDays == 90
FutureDays == 180

\* `new Date(s)` of a date-only ISO 8601 string: midnight UTC of day d, as
\* hours since midnight UTC of day 0
ParseDate(d) == d * HoursPerDay

\* `setHours(0, 0, 0, 0)`: the start of the local calendar day of instant t,
\* given as the number of that day; tz is the zone's offset from UTC in hours
LocalDay(t, tz) == (t + tz) \div HoursPerDay

\* Mutation of MaerskDateRejected: the window's last day is excluded.
MaerskDateRejected_LastDayOut(d, clock, tz) ==
    LET today == LocalDay(clock, tz)
        day == LocalDay(ParseDate(d), tz)
    IN  day < today - PastDays \/ day >= today + FutureDays

\* MaerskScheduleAdapter.getSchedule, the date guard: `startDate < minDate ||
\* startDate > maxDate` with today, the date, minDate and maxDate all set to
\* the start of their local day
MaerskDateRejected(d, clock, tz) ==
    LET today == LocalDay(clock, tz)
        day == LocalDay(ParseDate(d), tz)
    IN  day < today - PastDays \/ day > today + FutureDays

\* MaerskScheduleAdapter.getSchedule (Vessel Schedule), up to httpClient.get
MaerskScheduleAdapter(in) ==
    IF "schedule" \notin in.apis THEN NotConfigured
    ELSE IF "startDate" \in in.params /\ MaerskDateRejected(in.startDate, in.clock, in.tz)
    THEN StartOutOfRange
    ELSE IF "endDate" \in in.params /\ MaerskDateRejected(in.endDate, in.clock, in.tz)
    THEN EndOutOfRange
    ELSE NoThrow

\* MaerskPointToPointAdapter.getSchedule, up to httpClient.get
MaerskPointToPointAdapter(in) ==
    IF "pointToPoint" \notin in.apis THEN NotConfigured
    ELSE IF "placeOfReceipt" \notin in.params
    THEN "Maersk Point-to-Point API requires placeOfReceipt (UNLocationCode) parameter"
    ELSE IF "placeOfDelivery" \notin in.params
    THEN "Maersk Point-to-Point API requires placeOfDelivery (UNLocationCode) parameter"
    ELSE NoThrow

\* MaerskPortScheduleAdapter.getSchedule, up to httpClient.get (a missing
\* date is replaced by the current date)
MaerskPortScheduleAdapter(in) ==
    IF "portSchedule" \notin in.apis THEN NotConfigured
    ELSE IF "UNLocationCode" \notin in.params
    THEN "Maersk Port Schedule API requires UNLocationCode parameter"
    ELSE NoThrow

\* Mutation of MaerskRoute: the Port Schedule trigger ignores the vessel parameters.
MaerskRoute_PortIgnoresVessel(params) ==
    IF {"placeOfReceipt", "placeOfDelivery"} \subseteq params THEN "pointToPointAdapter"
    ELSE IF /\ "UNLocationCode" \in params
            /\ ("date" \in params \/ "startDate" \in params)
    THEN "portScheduleAdapter"
    ELSE "scheduleAdapter"

\* MaerskAdapter.getSchedule: the sub-adapter whose getSchedule it returns
MaerskRoute(params) ==
    IF {"placeOfReceipt", "placeOfDelivery"} \subseteq params THEN "pointToPointAdapter"
    ELSE IF /\ "UNLocationCode" \in params
            /\ ("date" \in params \/ "startDate" \in params)
            /\ "vesselIMONumber" \notin params
            /\ "carrierVoyageNumber" \notin params
            /\ "carrierServiceCode" \notin params
    THEN "portScheduleAdapter"
    ELSE "scheduleAdapter"

\* ZIMScheduleAdapter.getSchedule, up to httpClient.get: the only parameter
\* test is `if (params.UNLocationCode) throw`; originCode and destCode are
\* not read
ZIMScheduleAdapter(in) ==
    IF "schedule" \notin in.apis THEN NotConfigured
    ELSE IF "UNLocationCode" \in in.params
    THEN "ZIM Schedule API requires both origin and destination locations"
    ELSE NoThrow

\* CMACGMRouteAdapter.getSchedule, up to httpClient.get
CMACGMRouteAdapter(in) ==
    IF "route" \notin in.apis THEN NotConfigured
    ELSE IF "placeOfLoading" \notin in.params /\ "unLocodePlaceOfLoading" \notin in.params
    THEN "CMA CGM Route API requires placeOfLoading or unLocodePlaceOfLoading parameter"
    ELSE IF "placeOfDischarge" \notin in.params /\ "unLocodePlaceOfDischarge" \notin in.params
    THEN "CMA CGM Route API requires placeOfDischarge or unLocodePlaceOfDischarge parameter"
    ELSE NoThrow

\* CMACGMProformaAdapter.getSchedule, up to its first httpClient.get: every
\* parameter bag selects a request
CMACGMProformaAdapter(in) ==
    IF "proforma" \notin in.apis THEN NotConfigured ELSE NoThrow

\* CMACGMVoyageAdapter.getSchedule, up to httpClient.get: the branches by
\* voyage code, by vessel, by port or country, by dates; the last throws
CMACGMVoyageAdapter(in) ==
    LET voyageCode == "voyageCode" \in in.params \/ "carrierVoyageNumber" \in in.params
        vesselIMO == "vesselIMO" \in in.params \/ "vesselIMONumber" \in in.params
        from == "from" \in in.params \/ "startDate" \in in.params
        to == "to" \in in.params \/ "endDate" \in in.params
    IN  IF "voyage" \notin in.apis THEN NotConfigured
        ELSE IF voyageCode THEN NoThrow
        ELSE IF vesselIMO /\ ~from /\ ~to THEN NoThrow
        ELSE IF "portCode" \in in.params \/ "countryCode" \in in.params THEN NoThrow
        ELSE IF from /\ to THEN NoThrow
        ELSE "CMA CGM Voyage API requires at least one of: voyageCode, vesselIMO, (from and to dates), or (portCode/countryCode)"

\* CMACGMScheduleAdapter.getSchedule (Commercial Schedule), up to httpClient.get
CMACGMScheduleAdapter(in) ==
    IF "schedule" \notin in.apis THEN NotConfigured ELSE NoThrow

\* The tracking adapters' getTracking, up to httpClient.get: HMM requires the
\* booking reference and the equipment reference, Maersk and ZIM any one of
\* the three references, CMA CGM none.
TrackingAdapter(in) ==
    IF "tracking" \notin in.apis THEN NotConfigured
    ELSE IF in.carrier = "HMM"
    THEN IF {"carrierBookingReference", "equipmentReference"} \subseteq in.params
         THEN NoThrow
         ELSE "HMM Tracking API requires both carrierBookingReference and equipmentReference parameters"
    ELSE IF in.carrier \in {"MAERSK", "ZIM"}
    THEN IF in.params \cap TrackingParamNames # {}
         THEN NoThrow
         ELSE "Tracking API requires at least one of: carrierBookingReference, transportDocumentReference, or equipmentReference"
    ELSE NoThrow

\* The call a carrier adapter has not been given yet.
\* delegated: the sub-adapters the router called, in order
\* thrown: what the sub-adapter threw before calling the transport client
\* call: the carrier call as the transport client sees it
\* http, tokens: history, the vendor requests and the token requests sent
NoAdOut ==
    [done |-> FALSE, delegated |-> <<>>, thrown |-> NoThrow, call |-> IdleCall,
     http |-> 0, tokens |-> 0]

\* Mutation of Delegate: the auth headers are asked for before the
\* sub-adapter tests its parameters.
Delegate_AuthFirst(in, sub, thrown) ==
    LET auth == GetAuthHeaders(IdleCall, in.carrier, in.kind, "request",
                               tokenCache[in.carrier])
        call == IF thrown = NoThrow THEN auth
                ELSE Failed(IF thrown = NotConfigured THEN "config" ELSE "param")
    IN  [done |-> TRUE, delegated |-> <<sub>>, thrown |-> thrown, call |-> call,
         http |-> call.attempts,
         tokens |-> IF auth.pc = "token" THEN 1 ELSE 0]

\* The router's `return this.<sub>.getSchedule(params)`: the sub-adapter
\* throws, or calls the transport client, whose request interceptor asks for
\* the auth headers before the request leaves.
Delegate(in, sub, thrown) ==
    LET call == IF thrown = NoThrow
                THEN GetAuthHeaders(IdleCall, in.carrier, in.kind, "request",
                                    tokenCache[in.carrier])
                ELSE Failed(IF thrown = NotConfigured THEN "config" ELSE "param")
    IN  [done |-> TRUE, delegated |-> <<sub>>, thrown |-> thrown, call |-> call,
         http |-> call.attempts,
         tokens |-> IF call.pc = "token" THEN 1 ELSE 0]

\* HMMAdapter.getSchedule
HMMAdapter_getSchedule ==
    LET sub == HmmRoute(adIn.params)
        thrown == CASE sub = "scheduleAdapter" -> HMMScheduleAdapter(adIn)
                    [] sub = "ptpScheduleAdapter" -> HMMPTPScheduleAdapter(adIn)
                    [] sub = "portScheduleAdapter" -> HMMPortScheduleAdapter(adIn)
    IN  /\ adIn.carrier = "HMM" /\ adIn.kind = "schedule"
        /\ ~adOut.done
        /\ adOut' = Delegate(adIn, sub, thrown)
        /\ UNCHANGED <<adIn, sysVars, keyVars, cmaVars, mapVars>>

\* MaerskAdapter.getSchedule
MaerskAdapter_getSchedule ==
    LET sub == MaerskRoute(adIn.params)
        thrown == CASE sub = "pointToPointAdapter" -> MaerskPointToPointAdapter(adIn)
                    [] sub = "portScheduleAdapter" -> MaerskPortScheduleAdapter(adIn)
                    [] sub = "scheduleAdapter" -> MaerskScheduleAdapter(adIn)
    IN  /\ adIn.carrier = "MAERSK" /\ adIn.kind = "schedule"
        /\ ~adOut.done
        /\ adOut' = Delegate(adIn, sub, thrown)
        /\ UNCHANGED <<adIn, sysVars, keyVars, cmaVars, mapVars>>

\* ZIMAdapter.getSchedule: `return this.scheduleAdapter.getSchedule(params)`
ZIMAdapter_getSchedule ==
    /\ adIn.carrier = "ZIM" /\ adIn.kind = "schedule"
    /\ ~adOut.done
    /\ adOut' = Delegate(adIn, "scheduleAdapter", ZIMScheduleAdapter(adIn))
    /\ UNCHANGED <<adIn, sysVars, keyVars, cmaVars, mapVars>>

\* CMACGMAdapter.getSchedule with the sub-adapter it delegates to
CMACGMAdapter_getSchedule ==
    LET sub == CmaRoute(adIn.params)
        thrown == CASE sub = "routeAdapter" -> CMACGMRouteAdapter(adIn)
                    [] sub = "proformaAdapter" -> CMACGMProformaAdapter(adIn)
                    [] sub = "voyageAdapter" -> CMACGMVoyageAdapter(adIn)
                    [] sub = "scheduleAdapter" -> CMACGMScheduleAdapter(adIn)
    IN  /\ adIn.carrier = "CMCG" /\ adIn.kind = "schedule"
        /\ ~adOut.done
        /\ adOut' = Delegate(adIn, sub, thrown)
        /\ UNCHANGED <<adIn, sysVars, keyVars, cmaVars, mapVars>>

\* getTracking of the four carrier adapters:
\* `return this.trackingAdapter.getTracking(params)`
Adapter_getTracking ==
    /\ adIn.kind = "tracking"
    /\ ~adOut.done
    /\ adOut' = Delegate(adIn, "trackingAdapter", TrackingAdapter(adIn))
    /\ UNCHANGED <<adIn, sysVars, keyVars, cmaVars, mapVars>>

\* The network answers the call in flight and the adapter settles: the token
\* URL refuses the token, or the vendor's answer makes the adapter return a
\* result or throw.
VendorAnswers(answer) ==
    LET call == adOut.call
    IN  /\ adOut.done
        /\ call.pc \in {"token", "http"}
        /\ answer = "token refused" => call.pc = "token"
        /\ adOut' = [adOut EXCEPT
                       !.call = CASE answer = "result" -> Succeeded("array", 0)
                                  [] answer = "error" -> Failed("http")
                                  [] answer = "token refused" -> Failed("auth"),
                       !.http = IF call.pc = "token" /\ answer # "token refused"
                                THEN @ + 1 ELSE @]
        /\ UNCHANGED <<adIn, sysVars, keyVars, cmaVars, mapVars>>

\* The environment of the adapter specifications: every carrier has its
\* credentials.
AdapterEnv == DeployedEnv \cup {<<"ZIM", "API_KEY">>}

\* The date values of the queries of SpecAdapters: today and a day past the window.
AdapterDays == {0, FutureDays + 1}

AdapterInput(c, kind, names, days) ==
    [carrier : {c}, kind : {kind}, apis : ApiConfigs(c), params : names,
     startDate : days, endDate : days, clock : {0}, tz : {0}]

\* The calls taken: each carrier's schedule queries over the parameters its
\* router and sub-adapters test, and each carrier's tracking queries.
AdapterInputs ==
    AdapterInput("HMM", "schedule", SUBSET HmmParamNames, {0})
        \cup AdapterInput("MAERSK", "schedule", SUBSET MaerskParamNames, AdapterDays)
        \cup AdapterInput("ZIM", "schedule", SUBSET ZimParamNames, {0})
        \cup AdapterInput("CMCG", "schedule", CmaBags, {0})
        \cup UNION {AdapterInput(c, "tracking", SUBSET TrackingParamNames, {0}) :
                      c \in Carriers}

AdapterConstructed ==
    /\ Constructed /\ KeyIdle /\ CmaIdle /\ MapIdle
    /\ authType = ApiKeyDeployment /\ env = AdapterEnv
    /\ clients = [q \in Queries |-> {}]
    /\ adOut = NoAdOut

InitAdapters == AdapterConstructed /\ adIn \in AdapterInputs

NextAdapters ==
    \/ HMMAdapter_getSchedule
    \/ MaerskAdapter_getSchedule
    \/ ZIMAdapter_getSchedule
    \/ CMACGMAdapter_getSchedule
    \/ Adapter_getTracking
    \/ \E answer \in {"result", "error", "token refused"} : VendorAnswers(answer)

SpecAdapters == InitAdapters /\ [][NextAdapters]_vars

(***************************************************************************)
(* SpecDates: the date guard of MaerskScheduleAdapter.getSchedule, over    *)
(* dates around the two ends of the window, clock readings and time zones. *)
(***************************************************************************)
\* Date-only ISO 8601 strings, as day numbers: day 0 and the days within
\* DaySlack of the window's ends as counted from day 0.
GuardDays ==
    {0} \cup {FutureDays + k : k \in -DaySlack..DaySlack}
        \cup {k - PastDays : k \in -DaySlack..DaySlack}

\* `new Date()`: the clock reads an hour of day 0 (UTC): its first, its
\* thirteenth, its last.
GuardClocks == {0, HoursPerDay \div 2, HoursPerDay - 1}

\* The server's time zone, as its offset from UTC in hours: New York (EST),
\* UTC, Seoul.
Zones == {-5, 0, 9}

DateInputs ==
    [carrier : {"MAERSK"}, kind : {"schedule"}, apis : {Apis("MAERSK")},
     params : SUBSET {"startDate", "endDate"},
     startDate : GuardDays, endDate : GuardDays, clock : GuardClocks, tz : Zones]

InitDates == AdapterConstructed /\ adIn \in DateInputs

NextDates ==
    \/ MaerskAdapter_getSchedule
    \/ \E answer \in {"result", "error", "token refused"} : VendorAnswers(answer)

SpecDates == InitDates /\ [][NextDates]_vars

(***************************************************************************)
(* SpecMap: the mappers from vendor payloads to the DCSA model, applied    *)
(* to one payload at up to MaxRuns points in time.  Strings the mappers    *)
(* take apart are sequences of characters.                                 *)
(***************************************************************************)
\* the sequences over S of at most MaxItems elements
Payloads(S) == UNION {[1..n -> S] : n \in 0..MaxItems}

\* the elements of s in the order of their first occurrence (Map insertion order)
RECURSIVE Distinct(_)
Distinct(s) ==
    IF s = <<>> THEN <<>>
    ELSE LET r == Distinct(SubSeq(s, 1, Len(s) - 1))
         IN  IF \E i \in DOMAIN r : r[i] = s[Len(s)] THEN r ELSE Append(r, s[Len(s)])

\* `Date.now()` and `new Date().toISOString()` as the mappers embed them
ClockString(clock) == <<"now", ToString(clock)>>

\* HMMScheduleItem: vvdCode, vesselName, portCode, arrival and departure,
\* each a date (YYYYMMDD) and a time (HHMM); an absent field is empty.  The
\* status codes are absent, for which mapStatusCodeToClassifier answers EST.
HMMScheduleItems ==
    [vvdCode : {<<>>, <<"F", "E", "1", "W">>},
     vesselName : {"", "HMM ALGECIRAS"},
     portCode : {"KRPUS"},
     arrival : [date : {<<>>, <<"2", "0", "2", "1", "0", "8", "1", "7">>,
                        <<"2", "0", "2", "1", "-", "0", "8">>},
                time : {<<>>, <<"2", "1", "0", "0">>}],
     departure : {[date |-> <<>>, time |-> <<>>],
                  [date |-> <<"2", "0", "2", "1", "0", "8", "1", "8">>,
                   time |-> <<"0", "6", "3", "0">>]}]

\* both the date and the time are given: a timestamp is made of them
Given(moment) == moment.date # <<>> /\ moment.time # <<>>

\* convertHMMDateTime throws on a date that has not 8 characters or a time
\* that has not 4
ConvertThrows(moment) == Len(moment.date) # 8 \/ Len(moment.time) # 4

\* Mutation of convertHMMDateTime: the day is put before the month.
convertHMMDateTime_DayFirst(moment) ==
    SubSeq(moment.date, 1, 4) \o <<"-">> \o SubSeq(moment.date, 7, 8) \o <<"-">>
        \o SubSeq(moment.date, 5, 6) \o <<"T">> \o SubSeq(moment.time, 1, 2)
        \o <<":">> \o SubSeq(moment.time, 3, 4) \o <<":", "0", "0", "Z">>

\* convertHMMDateTime: "20210817" + "2100" -> "2021-08-17T21:00:00Z"
convertHMMDateTime(moment) ==
    SubSeq(moment.date, 1, 4) \o <<"-">> \o SubSeq(moment.date, 5, 6) \o <<"-">>
        \o SubSeq(moment.date, 7, 8) \o <<"T">> \o SubSeq(moment.time, 1, 2)
        \o <<":">> \o SubSeq(moment.time, 3, 4) \o <<":", "0", "0", "Z">>

UpperCase ==
    {"A", "B", "C", "D", "E", "F", "G", "H", "I", "J", "K", "L", "M", "N", "O",
     "P", "Q", "R", "S", "T", "U", "V", "W", "X", "Y", "Z"}

\* the match of /^([A-Z]+)/
RECURSIVE LetterPrefix(_)
LetterPrefix(s) ==
    IF s = <<>> \/ Head(s) \notin UpperCase THEN <<>>
    ELSE <<Head(s)>> \o LetterPrefix(Tail(s))

\* extractServiceCodeFromVVD
extractServiceCodeFromVVD(vvdCode) ==
    IF LetterPrefix(vvdCode) # <<>> THEN LetterPrefix(vvdCode)
    ELSE SubSeq(vvdCode, 1, IF Len(vvdCode) < 11 THEN Len(vvdCode) ELSE 11)

\* localeCompare of two date strings: a < b, the hyphen sorting before the digits
RECURSIVE Before(_, _)
Before(a, b) ==
    LET order == <<"-", "0", "1", "2", "3", "4", "5", "6", "7", "8", "9">>
        rank(c) == CHOOSE i \in DOMAIN order : order[i] = c
    IN  IF b = <<>> THEN FALSE
        ELSE IF a = <<>> THEN TRUE
        ELSE IF Head(a) = Head(b) THEN Before(Tail(a), Tail(b))
        ELSE rank(Head(a)) < rank(Head(b))

\* `[...vesselItems].sort(...)`: a stable sort by arrivalDate || departureDate || ''
RECURSIVE SortByDate(_)
SortByDate(items) ==
    IF items = <<>> THEN <<>>
    ELSE LET key(item) == IF item.arrival.date # <<>> THEN item.arrival.date
                          ELSE item.departure.date
             sorted == SortByDate(SubSeq(items, 1, Len(items) - 1))
             last == items[Len(items)]
             p == Cardinality({i \in DOMAIN sorted : ~Before(key(last), key(sorted[i]))})
         IN  SubSeq(sorted, 1, p) \o <<last>> \o SubSeq(sorted, p + 1, Len(sorted))

\* mapHMMScheduleToDCSA, for one vessel's items of one voyage: the transport
\* calls; an item without timestamps is skipped
HmmTransportCalls(items, vvdCode, clock) ==
    LET timestamps(item) ==
            (IF Given(item.arrival)
             THEN <<[eventTypeCode |-> "ARRI", eventClassifierCode |-> "EST",
                     eventDateTime |-> convertHMMDateTime(item.arrival)]>>
             ELSE <<>>)
            \o (IF Given(item.departure)
                THEN <<[eventTypeCode |-> "DEPA", eventClassifierCode |-> "EST",
                        eventDateTime |-> convertHMMDateTime(item.departure)]>>
                ELSE <<>>)
        timed(item) == timestamps(item) # <<>>
        kept == SelectSeq(SortByDate(items), timed)
    IN  [i \in DOMAIN kept |->
            [transportCallReference |->
                 <<"HMM", vvdCode, kept[i].portCode, ClockString(clock)>>,
             carrierImportVoyageNumber |-> vvdCode,
             carrierExportVoyageNumber |-> vvdCode,
             UNLocationCode |-> kept[i].portCode,
             timestamps |-> timestamps(kept[i])]]

\* mapHMMScheduleToDCSA: services by vvdCode, vessel schedules by vesselName;
\* `vessel: undefined` and `transportCalls: undefined` are empty sequences
mapHMMScheduleToDCSA(resultData, carrierServiceCode, clock) ==
    LET vvdOf(item) == IF item.vvdCode = <<>>
                       THEN <<"U", "N", "K", "N", "O", "W", "N">> ELSE item.vvdCode
        nameOf(item) == IF item.vesselName = "" THEN "UNKNOWN" ELSE item.vesselName
        vvdCodes == Distinct([i \in DOMAIN resultData |-> vvdOf(resultData[i])])
        service(vvdCode) ==
            LET ofVoyage(item) == vvdOf(item) = vvdCode
                items == SelectSeq(resultData, ofVoyage)
                names == Distinct([i \in DOMAIN items |-> nameOf(items[i])])
                vesselSchedule(vesselName) ==
                    LET ofVessel(item) == nameOf(item) = vesselName
                    IN  [isDummyVessel |-> vesselName = "UNKNOWN",
                         vessel |-> IF vesselName # "UNKNOWN"
                                    THEN <<[vesselIMONumber |-> "0000000",
                                            name |-> vesselName]>>
                                    ELSE <<>>,
                         transportCalls |->
                             HmmTransportCalls(SelectSeq(items, ofVessel), vvdCode, clock)]
                serviceCode == IF carrierServiceCode # <<>> THEN carrierServiceCode
                               ELSE extractServiceCodeFromVVD(vvdCode)
            IN  [carrierServiceCode |-> serviceCode,
                 carrierServiceName |-> serviceCode,
                 vesselSchedules |-> [i \in DOMAIN names |-> vesselSchedule(names[i])]]
        throws == \E i \in DOMAIN resultData :
                     \/ Given(resultData[i].arrival) /\ ConvertThrows(resultData[i].arrival)
                     \/ Given(resultData[i].departure) /\ ConvertThrows(resultData[i].departure)
    IN  IF throws THEN [threw |-> TRUE, value |-> <<>>]
        ELSE [threw |-> FALSE, value |-> [i \in DOMAIN vvdCodes |-> service(vvdCodes[i])]]

\* CMACGMService: code and name
CMACGMServices == [code : {"FAL1", "NEMO"}, name : {"French Asia Line 1"}]

\* CMACGMProformaAdapter.mapProformaToDCSA: `vesselSchedules: []`
mapProformaToDCSA(services) ==
    [threw |-> FALSE,
     value |-> [i \in DOMAIN services |->
                   [carrierServiceCode |-> services[i].code,
                    carrierServiceName |-> services[i].name,
                    vesselSchedules |-> <<>>]]]

\* HMMTransportEvent: the two date-times and the transport call's id; an
\* absent field is empty
HMMTransportEvents ==
    [eventID : {"E1"},
     eventCreatedDateTime : {<<>>, <<"2021-08-17T21:00:00Z">>},
     eventDateTime : {<<>>, <<"2021-08-18T06:30:00Z">>},
     transportCallID : {<<>>, <<"TC1">>}]

\* mapHMMTrackingToDCSA, the transport events:
\* `eventCreatedDateTime || new Date().toISOString()`,
\* `eventDateTime || eventCreatedDateTime || new Date().toISOString()`,
\* `transportCallID || temp-${Date.now()}`
mapHMMTrackingToDCSA(transportEvent, clock) ==
    LET event(e) ==
            [eventID |-> e.eventID,
             eventCreatedDateTime |-> IF e.eventCreatedDateTime # <<>>
                                      THEN e.eventCreatedDateTime ELSE ClockString(clock),
             eventDateTime |-> IF e.eventDateTime # <<>> THEN e.eventDateTime
                               ELSE IF e.eventCreatedDateTime # <<>>
                               THEN e.eventCreatedDateTime ELSE ClockString(clock),
             transportCallID |-> IF e.transportCallID # <<>> THEN e.transportCallID
                                 ELSE <<"temp">> \o ClockString(clock)]
    IN  [threw |-> FALSE,
         value |-> [i \in DOMAIN transportEvent |-> event(transportEvent[i])]]

\* the date-time strings handed to normalizeDateTime: absent, unparseable,
\* a date alone, and a date with a time and no offset, Z, +09:00 or -05:00
DateTimes ==
    LET date == <<"2", "0", "2", "1", "-", "0", "8", "-", "1", "7">>
        time == <<"T", "2", "1", ":", "0", "0", ":", "0", "0">>
        offsets == {<<>>, <<"Z">>, <<"+", "0", "9", ":", "0", "0">>,
                    <<"-", "0", "5", ":", "0", "0">>}
    IN  {<<>>, <<"N", "/", "A">>, date} \cup {date \o time \o o : o \in offsets}

\* normalizeDateTime: an empty string throws; a string that includes 'T' is
\* returned, with 'Z' appended unless it ends with 'Z'; any other string goes
\* through `new Date(...)`: a date alone (YYYY-MM-DD) is midnight UTC and
\* comes back from toISOString, an unparseable string throws
normalizeDateTime(dateTime) ==
    LET n == Len(dateTime)
    IN  IF dateTime = <<>> THEN [threw |-> TRUE, value |-> <<>>]
        ELSE IF \E i \in DOMAIN dateTime : dateTime[i] = "T"
        THEN [threw |-> FALSE,
              value |-> IF dateTime[n] = "Z" THEN dateTime ELSE Append(dateTime, "Z")]
        ELSE IF n = 10 /\ dateTime[5] = "-" /\ dateTime[8] = "-"
        THEN [threw |-> FALSE,
              value |-> dateTime \o <<"T", "0", "0", ":", "0", "0", ":", "0", "0",
                                      ".", "0", "0", "0", "Z">>]
        ELSE [threw |-> TRUE, value |-> <<>>]

\* MaerskPointToPoint legs: the transport's mode, servicePartners[0]'s
\* carrierServiceCode, and the vessel or barge (absent, without an IMO number,
\* or with one); an absent string is empty.  transportCallReference is absent
\* and every leg departs 2021-08-17T21:00:00Z and arrives 2021-08-18T06:30:00Z
MaerskLegs ==
    [modeOfTransport : {"VESSEL", "BARGE"}, carrierServiceCode : {"", "AE1", "AE7"},
     vessel : {"9321483"}]
        \cup [modeOfTransport : {"TRUCK"}, carrierServiceCode : {"AE1"},
              vessel : {"9321483"}]
        \cup [modeOfTransport : {"VESSEL"}, carrierServiceCode : {"AE1"},
              vessel : {"absent", ""}]

\* the routes of a response: solutionNumber and the legs' sequenceNumber count
\* from 1
MaerskRoutes ==
    {[r \in DOMAIN routes |-> [solutionNumber |-> r, legs |-> routes[r]]] :
        routes \in Payloads(Payloads(MaerskLegs))}

\* mapPointToPointToDCSA, one leg of a route: the service of the leg's own
\* servicePartner is found or made, in it the vessel schedule of the vessel's
\* IMO number, and the transport call is pushed there
RECURSIVE MaerskLegsToDCSA(_, _, _)
MaerskLegsToDCSA(services, route, n) ==
    IF n = 0 THEN services
    ELSE LET before == MaerskLegsToDCSA(services, route, n - 1)
             leg == route.legs[n]
             serviceCode == IF leg.carrierServiceCode # "" THEN leg.carrierServiceCode
                            ELSE "UNKNOWN_SERVICE"
             vesselIMO == IF leg.vessel # "" THEN leg.vessel ELSE "0000000"
             has(s) == \E k \in DOMAIN s : s[k].carrierServiceCode = serviceCode
             made == IF has(before) THEN before
                     ELSE Append(before, [carrierServiceCode |-> serviceCode,
                                          carrierServiceName |-> serviceCode,
                                          vesselSchedules |-> <<>>,
                                          pointToPointRoutes |-> <<>>])
             k == CHOOSE k \in DOMAIN made : made[k].carrierServiceCode = serviceCode
             sailing(vs) == \E j \in DOMAIN vs : vs[j].vessel[1].vesselIMONumber = vesselIMO
             schedules == IF sailing(made[k].vesselSchedules) THEN made[k].vesselSchedules
                          ELSE Append(made[k].vesselSchedules,
                                      [isDummyVessel |-> vesselIMO = "0000000",
                                       vessel |-> <<[vesselIMONumber |-> vesselIMO]>>,
                                       transportCalls |-> <<>>])
             j == CHOOSE j \in DOMAIN schedules :
                     schedules[j].vessel[1].vesselIMONumber = vesselIMO
             transportCall ==
                 [transportCallReference |-> <<"ptp", route.solutionNumber, n>>,
                  timestamps |-> <<[eventTypeCode |-> "DEPA", eventClassifierCode |-> "EST",
                                    eventDateTime |-> "2021-08-17T21:00:00Z"],
                                   [eventTypeCode |-> "ARRI", eventClassifierCode |-> "EST",
                                    eventDateTime |-> "2021-08-18T06:30:00Z"]>>]
         IN  IF leg.modeOfTransport \notin {"VESSEL", "BARGE"} \/ leg.vessel = "absent"
             THEN before
             ELSE [made EXCEPT ![k].vesselSchedules =
                      [schedules EXCEPT ![j].transportCalls = Append(@, transportCall)]]

\* mapPointToPointToDCSA: route by route; the route's metadata go to the
\* service named on its first VESSEL/BARGE leg that names one; services
\* without vessel schedules are filtered out
RECURSIVE MaerskRoutesToDCSA(_, _)
MaerskRoutesToDCSA(routes, n) ==
    IF n = 0 THEN <<>>
    ELSE LET before == MaerskRoutesToDCSA(routes, n - 1)
             route == routes[n]
             named == {i \in DOMAIN route.legs :
                          /\ route.legs[i].modeOfTransport \in {"VESSEL", "BARGE"}
                          /\ route.legs[i].carrierServiceCode # ""}
             routeServiceCode ==
                 IF named = {} THEN "UNKNOWN_SERVICE"
                 ELSE route.legs[CHOOSE i \in named : \A m \in named : i <= m].carrierServiceCode
             legged == MaerskLegsToDCSA(before, route, Len(route.legs))
         IN  IF route.legs = <<>> THEN before
             ELSE [k \in DOMAIN legged |->
                      IF legged[k].carrierServiceCode = routeServiceCode
                      THEN [legged[k] EXCEPT !.pointToPointRoutes =
                               Append(@, route.solutionNumber)]
                      ELSE legged[k]]

mapPointToPointToDCSA(routes) ==
    LET withSchedules(schedule) == schedule.vesselSchedules # <<>>
    IN  [threw |-> FALSE,
         value |-> SelectSeq(MaerskRoutesToDCSA(routes, Len(routes)), withSchedules)]

\* CMACGMRouting: one routing of routingDetails; a detail has the voyage's
\* service code, the vehicule's reference and name, the two dates and
\* pointFrom's internalCode; an absent string is empty.  callId is absent
CMACGMRoutings ==
    LET details ==
            [serviceCode : {"FAL1"}, reference : {"", "9454436"},
             vehiculeName : {"", "CMA CGM MARCO POLO"},
             departureDateGmt : {"", "2021-08-17T21:00:00Z"},
             arrivalDateGmt : {"", "2021-08-18T06:30:00Z"},
             internalCode : {"", "FRLEH"}]
                \cup [serviceCode : {""}, reference : {"9454436"},
                      vehiculeName : {"CMA CGM MARCO POLO"},
                      departureDateGmt : {"2021-08-17T21:00:00Z"},
                      arrivalDateGmt : {"2021-08-18T06:30:00Z"},
                      internalCode : {"FRLEH"}]
    IN  {<<>>} \cup {<<[solutionNo |-> 1, routingDetails |-> d]>> : d \in Payloads(details)}

\* mapRouteToDCSA, the details of one routing
RECURSIVE CMACGMDetailsToDCSA(_, _, _)
CMACGMDetailsToDCSA(services, routing, n) ==
    IF n = 0 THEN services
    ELSE LET before == CMACGMDetailsToDCSA(services, routing, n - 1)
             detail == routing.routingDetails[n]
             serviceCode == detail.serviceCode
             vesselIMO == IF detail.reference # "" THEN detail.reference ELSE "0000000"
             vesselName == detail.vehiculeName
             has(s) == \E k \in DOMAIN s : s[k].carrierServiceCode = serviceCode
             made == IF has(before) THEN before
                     ELSE Append(before, [carrierServiceCode |-> serviceCode,
                                          carrierServiceName |-> serviceCode,
                                          vesselSchedules |-> <<>>])
             k == CHOOSE k \in DOMAIN made : made[k].carrierServiceCode = serviceCode
             sailing(vs) == \E j \in DOMAIN vs : vs[j].vessel[1].vesselIMONumber = vesselIMO
             schedules == IF sailing(made[k].vesselSchedules) THEN made[k].vesselSchedules
                          ELSE Append(made[k].vesselSchedules,
                                      [isDummyVessel |-> vesselIMO = "0000000" \/ vesselName = "",
                                       vessel |-> <<[vesselIMONumber |-> vesselIMO,
                                                     name |-> IF vesselName # "" THEN vesselName
                                                              ELSE "UNKNOWN"]>>,
                                       transportCalls |-> <<>>])
             j == CHOOSE j \in DOMAIN schedules :
                     schedules[j].vessel[1].vesselIMONumber = vesselIMO
             timestamps ==
                 (IF detail.departureDateGmt # ""
                  THEN <<[eventTypeCode |-> "DEPA", eventClassifierCode |-> "EST",
                          eventDateTime |-> detail.departureDateGmt]>>
                  ELSE <<>>)
                 \o (IF detail.arrivalDateGmt # ""
                     THEN <<[eventTypeCode |-> "ARRI", eventClassifierCode |-> "EST",
                             eventDateTime |-> detail.arrivalDateGmt]>>
                     ELSE <<>>)
             transportCall ==
                 [transportCallReference |-> <<"route", routing.solutionNo, n>>,
                  timestamps |-> timestamps]
         IN  IF serviceCode = "" THEN before
             ELSE IF vesselName = "" /\ detail.departureDateGmt = ""
                     /\ detail.arrivalDateGmt = ""
             THEN before
             ELSE [made EXCEPT ![k].vesselSchedules =
                      IF timestamps # <<>> \/ detail.internalCode # ""
                      THEN [schedules EXCEPT ![j].transportCalls = Append(@, transportCall)]
                      ELSE schedules]

\* mapRouteToDCSA: routing by routing; the services kept are those with a
\* vessel schedule that has a transport call
mapRouteToDCSA(routings) ==
    LET RECURSIVE all(_)
        all(n) == IF n = 0 THEN <<>>
                  ELSE CMACGMDetailsToDCSA(all(n - 1), routings[n],
                                           Len(routings[n].routingDetails))
        called(schedule) ==
            \E j \in DOMAIN schedule.vesselSchedules :
                schedule.vesselSchedules[j].transportCalls # <<>>
    IN  [threw |-> FALSE, value |-> SelectSeq(all(Len(routings)), called)]

\* CMACGMCommercialCall: id, service code, the vessel's IMO number with the
\* voyage code, berthDate and unberthDate; an absent date is empty
CMACGMCommercialCalls ==
    [serviceCode : {"FAL1", "NEMO"}, vesselKey : {"9454436-0FL9XW1MA", "9454448-0BX9XW1MA"},
     berthDate : {"", "2021-08-17T21:00:00Z"}, unberthDate : {"", "2021-08-18T06:30:00Z"}]

\* mapCallsToDCSA: a vessel schedule is made for every new `imo-voyageCode`
\* and pushed to the service of the call that brought it; every call becomes
\* a transport call of its vessel schedule; the services are not filtered.
\* The calls' ids count from 1
RECURSIVE mapCallsToDCSA(_)
mapCallsToDCSA(commercialCalls) ==
    LET n == Len(commercialCalls)
        before == mapCallsToDCSA(SubSeq(commercialCalls, 1, n - 1)).value
        call == commercialCalls[n]
        has(s) == \E k \in DOMAIN s : s[k].carrierServiceCode = call.serviceCode
        made == IF has(before) THEN before
                ELSE Append(before, [carrierServiceCode |-> call.serviceCode,
                                     carrierServiceName |-> call.serviceCode,
                                     vesselSchedules |-> <<>>])
        k == CHOOSE k \in DOMAIN made : made[k].carrierServiceCode = call.serviceCode
        sails(vs) == \E j \in DOMAIN vs : vs[j].vesselKey = call.vesselKey
        known == \E m \in DOMAIN made : sails(made[m].vesselSchedules)
        pushed == IF known THEN made
                  ELSE [made EXCEPT ![k].vesselSchedules =
                           Append(@, [isDummyVessel |-> FALSE, vesselKey |-> call.vesselKey,
                                      transportCalls |-> <<>>])]
        timestamps ==
            (IF call.berthDate # ""
             THEN <<[eventTypeCode |-> "ARRI", eventClassifierCode |-> "EST",
                     eventDateTime |-> call.berthDate]>>
             ELSE <<>>)
            \o (IF call.unberthDate # ""
                THEN <<[eventTypeCode |-> "DEPA", eventClassifierCode |-> "EST",
                        eventDateTime |-> call.unberthDate]>>
                ELSE <<>>)
        transportCall == [transportCallReference |-> <<"call", n>>, timestamps |-> timestamps]
        visit(vs) == IF vs.vesselKey = call.vesselKey
                     THEN [vs EXCEPT !.transportCalls = Append(@, transportCall)]
                     ELSE vs
        visits(schedule) ==
            [schedule EXCEPT !.vesselSchedules = [j \in DOMAIN @ |-> visit(@[j])]]
    IN  IF n = 0 THEN [threw |-> FALSE, value |-> <<>>]
        ELSE [threw |-> FALSE, value |-> [m \in DOMAIN pushed |-> visits(pushed[m])]]

\* the mapper's call on the payload, the clock reading `clock`
Mapped(in, clock) ==
    CASE in.mapper = "mapHMMScheduleToDCSA" ->
             mapHMMScheduleToDCSA(in.payload, in.carrierServiceCode, clock)
      [] in.mapper = "mapProformaToDCSA" -> mapProformaToDCSA(in.payload)
      [] in.mapper = "mapHMMTrackingToDCSA" -> mapHMMTrackingToDCSA(in.payload, clock)
      [] in.mapper = "normalizeDateTime" -> normalizeDateTime(in.payload)
      [] in.mapper = "mapPointToPointToDCSA" -> mapPointToPointToDCSA(in.payload)
      [] in.mapper = "mapRouteToDCSA" -> mapRouteToDCSA(in.payload)
      [] in.mapper = "mapCallsToDCSA" -> mapCallsToDCSA(in.payload)

\* the mapper is applied to the payload
ApplyMapper ==
    /\ Len(mapOut.runs) < MaxRuns
    /\ mapOut' = [mapOut EXCEPT !.runs = Append(@, Mapped(mapIn, mapOut.clock))]
    /\ UNCHANGED <<mapIn, sysVars, keyVars, cmaVars, adVars>>

\* a millisecond passes
ClockAdvances ==
    /\ mapOut.clock < MaxClock
    /\ mapOut' = [mapOut EXCEPT !.clock = @ + 1]
    /\ UNCHANGED <<mapIn, sysVars, keyVars, cmaVars, adVars>>

MapInputs ==
    [mapper : {"mapHMMScheduleToDCSA"}, payload : Payloads(HMMScheduleItems),
     carrierServiceCode : {<<>>, <<"F", "E", "1">>}]
        \cup [mapper : {"mapProformaToDCSA"}, payload : Payloads(CMACGMServices),
              carrierServiceCode : {<<>>}]
        \cup [mapper : {"mapHMMTrackingToDCSA"}, payload : Payloads(HMMTransportEvents),
              carrierServiceCode : {<<>>}]

InitMap ==
    /\ Constructed /\ KeyIdle /\ CmaIdle /\ AdIdle
    /\ authType = ApiKeyDeployment /\ env = DeployedEnv
    /\ clients = [q \in Queries |-> {}]
    /\ mapIn \in MapInputs
    /\ mapOut = [runs |-> <<>>, clock |-> 0]

NextMap == ApplyMapper \/ ClockAdvances

SpecMap == InitMap /\ [][NextMap]_vars

(***************************************************************************)
(* SpecCalls: normalizeDateTime and the mappers that make transport calls  *)
(* out of vendor legs, routing details and commercial calls, applied as in *)
(* SpecMap.                                                                *)
(***************************************************************************)
CallInputs ==
    [mapper : {"normalizeDateTime"}, payload : DateTimes, carrierServiceCode : {<<>>}]
        \cup [mapper : {"mapPointToPointToDCSA"}, payload : MaerskRoutes,
              carrierServiceCode : {<<>>}]
        \cup [mapper : {"mapRouteToDCSA"}, payload : CMACGMRoutings,
              carrierServiceCode : {<<>>}]
        \cup [mapper : {"mapCallsToDCSA"}, payload : Payloads(CMACGMCommercialCalls),
              carrierServiceCode : {<<>>}]
        \cup {in \in MapInputs : in.mapper = "mapHMMScheduleToDCSA"}

InitCalls ==
    /\ Constructed /\ KeyIdle /\ CmaIdle /\ AdIdle
    /\ authType = ApiKeyDeployment /\ env = DeployedEnv
    /\ clients = [q \in Queries |-> {}]
    /\ mapIn \in CallInputs
    /\ mapOut = [runs |-> <<>>, clock |-> 0]

SpecCalls == InitCalls /\ [][NextMap]_vars

(***************************************************************************)
(* Properties of the fan-out aggregator (Spec).                            *)
(***************************************************************************)
Requested(q) == Range(query[q].codes)

Responded(q) == query[q].status = "responded"

\* the carrier's call returned a record list (possibly an empty one)
ReturnedRecords(q, c) == calls[q][c].success /\ calls[q][c].body = "array"

\* the carrier codes named in the errors list of a response
ErrorCarriers(resp) == {resp.errors[j].carrier : j \in 1..Len(resp.errors)}

\* C1: fan-out isolation.  Once a request is taken every requested carrier's
\* call has been started, whatever happens to the others, and the response
\* holds every record of every carrier whose call succeeded.
C1_FanOutIsolation ==
    \A q \in Queries :
        /\ query[q].status # "idle" =>
               \A c \in Requested(q) : calls[q][c].pc # "idle"
        /\ Responded(q) =>
               \A c \in Requested(q) :
                   calls[q][c].success =>
                       \A i \in 1..calls[q][c].n :
                           \E j \in 1..Len(query[q].response.data) :
                               /\ query[q].response.data[j].src = c
                               /\ query[q].response.data[j].idx = i

\* C2: overall outcome.  Whenever the aggregator decides the outcome (it has
\* not crashed into the 500 handler), a requested carrier that succeeded,
\* also with zero records, makes the response the success response, and the
\* collective failure 503 is returned only when every requested carrier
\* failed, with every carrier's error in it.
C2_OverallOutcome ==
    \A q \in Queries :
        Responded(q) /\ query[q].response.status # 500 =>
            /\ (\E c \in Requested(q) : ReturnedRecords(q, c)) =>
                   query[q].response.status = 200
            /\ query[q].response.status = 503 =>
                   /\ \A c \in Requested(q) : ~ReturnedRecords(q, c)
                   /\ ErrorCarriers(query[q].response) = Requested(q)

\* C3: fan-out accounting.  In every success response for N requested
\* carriers with k entries in errors: carriersQueried = N, carriersFailed = k,
\* carriersSucceeded = N - k, total = the length of data, and data holds only
\* records of carriers that are not in errors, each annotated with the code
\* of the carrier that produced it.
C3_Accounting ==
    \A q \in Queries :
        Responded(q) /\ query[q].response.status = 200 =>
            LET resp == query[q].response
            IN  /\ resp.carriersQueried = Len(query[q].codes)
                /\ resp.carriersFailed = Len(resp.errors)
                /\ resp.carriersSucceeded = Len(query[q].codes) - Len(resp.errors)
                /\ resp.total = Len(resp.data)
                /\ Cardinality(ErrorCarriers(resp)) = Len(resp.errors)
                /\ ErrorCarriers(resp) \subseteq Requested(q)
                /\ \A j \in 1..Len(resp.data) :
                       /\ resp.data[j].src \in Requested(q) \ ErrorCarriers(resp)
                       /\ resp.data[j].carrier = resp.data[j].src
                       /\ resp.data[j].idx <= calls[q][resp.data[j].src].n

\* C3 witness: a response for all four carriers in which three carriers
\* succeeded with records between them and one failed.
C3_Witness ==
    \E q \in Queries :
        /\ Responded(q) /\ query[q].response.status = 200
        /\ query[q].response.carriersQueried = 4
        /\ query[q].response.carriersFailed = 1
        /\ query[q].response.carriersSucceeded = 3
        /\ ErrorCarriers(query[q].response) = {"ZIM"}
        /\ query[q].response.total >= 2

\* C4: the 401 retry is bounded to one: no call ever makes more than two
\* HTTP attempts to the vendor endpoint.
C4_RetryOnce ==
    \A q \in Queries, c \in Carriers : calls[q][c].attempts <= 2

(***************************************************************************)
(* Properties of the token cache (SpecAuth).                               *)
(***************************************************************************)
\* C5: token cache freshness.  getAuthHeaders of an OAuth2 carrier answers
\* from the cache, sending no token request, exactly when the entry it read
\* has more than five minutes left; otherwise it has one token request in
\* flight, and the token it then stores and uses expires expires_in seconds
\* after the moment it is stored.  No token is served from the cache with
\* five minutes or less of lifetime left.
C5_CacheFreshness ==
    \A q \in Queries, c \in Carriers :
        LET call == calls[q][c]
        IN  /\ call.authHow = "cache" =>
                /\ call.authLeft > 5 * 60 * 1000
                /\ call.pc = "http" /\ call.sent # 0
            /\ call.authHow = "fetch" =>
                /\ call.authLeft <= 5 * 60 * 1000
                /\ call.pc = "token"
            /\ call.authHow = "fetched" =>
                /\ call.authLeft = call.expiresIn * 1000
                /\ call.pc = "http" /\ call.sent # 0

\* C5 witness: a call found an entry with exactly five minutes left and
\* fetched, while another call was answered from the cache.
C5_Witness ==
    \E q1, q2 \in Queries :
        /\ calls[q1]["MAERSK"].authHow = "fetch"
        /\ calls[q1]["MAERSK"].authLeft = 5 * 60 * 1000
        /\ calls[q2]["MAERSK"].authHow = "cache"

\* C6: single-flight refresh.  Calls of one OAuth2 carrier that run
\* concurrently while the cache holds no valid token share one token
\* request: at no time are two token requests of one carrier in flight.
C6_SingleFlight ==
    \A c \in Carriers :
        Cardinality({q \in Queries : calls[q][c].pc = "token"}) <= 1

(***************************************************************************)
(* Properties of the API-key resolution (SpecKey).                         *)
(***************************************************************************)
\* the variable names getApiKey has to try for the call, in the stated order
KeyOrder(in) ==
    SelectSeq(<<Lookup(in.auth.primaryKeys, in.endpointType),
                Lookup(in.auth.secondaryKeys, in.endpointType),
                Lookup(in.auth.apiKeys, in.endpointType),
                DefaultKeyName>>,
              LAMBDA name : name # "none")

\* the variable is set: it holds a non-empty value
IsSet(in, name) == in.env[name] = "value"

\* the first variable of the order that is set ("none": none is)
FirstSet(in) ==
    LET order == KeyOrder(in)
        set == {i \in 1..Len(order) : IsSet(in, order[i])}
    IN  IF set = {} THEN "none"
        ELSE order[CHOOSE i \in set : \A j \in set : i <= j]

\* C7: API-key resolution order.  The key in the outbound header is the value
\* of the first variable that is set, in the order primaryKeys[e],
\* secondaryKeys[e], apiKeys[e], <CARRIER>_API_KEY, so a primary key that is
\* set wins over the default key; the header is named headerNames[e] when
\* that is configured, else the carrier-wide headerName.
C7_KeyResolutionOrder ==
    keyOut.done =>
        /\ keyOut.sent <=> FirstSet(keyIn) # "none"
        /\ keyOut.sent => keyOut.key = FirstSet(keyIn)
        /\ keyOut.sent /\ Lookup(keyIn.auth.headerNames, keyIn.endpointType) # "none" =>
               keyOut.header = keyIn.auth.headerNames[keyIn.endpointType]
        /\ /\ keyOut.sent
           /\ Lookup(keyIn.auth.headerNames, keyIn.endpointType) = "none"
           /\ keyIn.auth.headerName # "none"
           => keyOut.header = keyIn.auth.headerName

\* C7 witness: the primary key of the endpoint and the default key are both
\* set, and the request left with the primary key under the endpoint's header.
C7_Witness ==
    /\ keyOut.done /\ keyOut.sent
    /\ keyIn.endpointType = "schedule"
    /\ keyIn.auth.primaryKeys["schedule"] = PrimaryKeyName
    /\ IsSet(keyIn, PrimaryKeyName) /\ IsSet(keyIn, DefaultKeyName)
    /\ keyOut.key = PrimaryKeyName
    /\ keyOut.header = "Ocp-Apim-Subscription-Key"

\* C8: diagnosable key failure.  When none of the variables looked up for
\* (carrier, endpointType) is set, no request is sent and the error names
\* every variable that was tried, the default <CARRIER>_API_KEY included.
C8_ErrorNamesEveryVariable ==
    keyOut.done /\ FirstSet(keyIn) = "none" =>
        /\ ~keyOut.sent
        /\ Range(keyOut.names) = Range(KeyOrder(keyIn))

(***************************************************************************)
(* Properties of the CMA CGM router (SpecCMA).                             *)
(***************************************************************************)
\* the sub-adapters whose trigger the parameters satisfy
Triggered(params) ==
    {a \in {"routeAdapter", "proformaAdapter", "voyageAdapter"} :
        \/ a = "routeAdapter" /\ RouteTrigger(params)
        \/ a = "proformaAdapter" /\ ProformaTrigger(params)
        \/ a = "voyageAdapter" /\ VoyageTrigger(params)}

\* the first sub-adapter of `order` that is triggered, else Commercial Schedule
FirstTriggered(order, params) ==
    LET hit == {i \in 1..Len(order) : order[i] \in Triggered(params)}
    IN  IF hit = {} THEN "scheduleAdapter"
        ELSE order[CHOOSE i \in hit : \A j \in hit : i <= j]

HmmScheduleDone == adIn.carrier = "HMM" /\ adIn.kind = "schedule" /\ adOut.done

HmmPTPTrigger(params) == {"fromLocationCode", "toLocationCode", "periodDate"} \subseteq params
HmmPortTrigger(params) == {"UNLocationCode", "startDate", "endDate"} \subseteq params

\* C11: HMM router dispatch.  getSchedule delegates to Vessel Schedule when
\* carrierVoyageNumber is present, whatever else is; otherwise to
\* Point-to-Point when fromLocationCode, toLocationCode and periodDate are
\* all present; otherwise to Port Schedule when UNLocationCode, startDate and
\* endDate are all present; otherwise to Vessel Schedule.
C11_HmmDispatch ==
    HmmScheduleDone =>
        LET p == adIn.params
            voyage == "carrierVoyageNumber" \in p
        IN  /\ voyage => adOut.delegated = <<"scheduleAdapter">>
            /\ (~voyage /\ HmmPTPTrigger(p)) => adOut.delegated = <<"ptpScheduleAdapter">>
            /\ (~voyage /\ ~HmmPTPTrigger(p) /\ HmmPortTrigger(p))
                   => adOut.delegated = <<"portScheduleAdapter">>
            /\ (~voyage /\ ~HmmPTPTrigger(p) /\ ~HmmPortTrigger(p))
                   => adOut.delegated = <<"scheduleAdapter">>

\* a query with every parameter present went to Vessel Schedule
C11_Witness ==
    /\ HmmScheduleDone
    /\ adIn.params = HmmParamNames
    /\ adOut.delegated = <<"scheduleAdapter">>

HmmFallback ==
    /\ HmmScheduleDone
    /\ "schedule" \in adIn.apis
    /\ "carrierVoyageNumber" \notin adIn.params
    /\ ~HmmPTPTrigger(adIn.params)
    /\ ~HmmPortTrigger(adIn.params)

\* C12: HMM fallback-then-fail.  A parameter bag with no carrierVoyageNumber
\* that matches neither the Point-to-Point nor the Port Schedule trigger
\* (schedule endpoint configured) always ends in the Vessel Schedule
\* adapter's missing-carrierVoyageNumber error, never in a result, and no
\* HTTP request is sent.
C12_HmmFallbackFails ==
    HmmFallback =>
        /\ adOut.delegated = <<"scheduleAdapter">>
        /\ adOut.thrown = "HMM Schedule API requires carrierVoyageNumber (vvdCode) parameter"
        /\ adOut.call = Failed("param")
        /\ adOut.http = 0 /\ adOut.tokens = 0

\* a port and a start date without an end date: the fallback branch failed
C12_Witness ==
    /\ HmmFallback
    /\ adIn.params = {"UNLocationCode", "startDate"}
    /\ adOut.call = Failed("param")

MaerskScheduleDone == adIn.carrier = "MAERSK" /\ adIn.kind = "schedule" /\ adOut.done

\* C13: Maersk router dispatch.  getSchedule delegates to Point-to-Point iff
\* placeOfReceipt and placeOfDelivery are both present; otherwise to Port
\* Schedule iff UNLocationCode and a date (date or startDate) are present and
\* none of vesselIMONumber, carrierVoyageNumber, carrierServiceCode is;
\* otherwise to Vessel Schedule.  Exactly one sub-adapter is called per query.
C13_MaerskDispatch ==
    MaerskScheduleDone =>
        LET p == adIn.params
            ptp == "placeOfReceipt" \in p /\ "placeOfDelivery" \in p
            port == /\ "UNLocationCode" \in p
                    /\ ("date" \in p \/ "startDate" \in p)
                    /\ p \cap {"vesselIMONumber", "carrierVoyageNumber", "carrierServiceCode"} = {}
        IN  /\ Len(adOut.delegated) = 1
            /\ adOut.delegated[1] = "pointToPointAdapter" <=> ptp
            /\ adOut.delegated[1] = "portScheduleAdapter" <=> (~ptp /\ port)
            /\ adOut.delegated[1] = "scheduleAdapter" <=> (~ptp /\ ~port)

\* a port and a date with a service code went to Vessel Schedule
C13_Witness ==
    /\ MaerskScheduleDone
    /\ adIn.params = {"UNLocationCode", "startDate", "carrierServiceCode"}
    /\ adOut.delegated = <<"scheduleAdapter">>

ZimScheduleDone ==
    /\ adIn.carrier = "ZIM" /\ adIn.kind = "schedule" /\ adOut.done
    /\ "schedule" \in adIn.apis

\* C14: ZIM hard error.  A ZIM schedule query in which both the origin and
\* the destination are absent fails with a missing-required-parameter error
\* and never sends an HTTP request to the ZIM schedule endpoint.
C14_ZimHardError ==
    (ZimScheduleDone /\ adIn.params \cap {"originCode", "destCode"} = {}) =>
        /\ IsMissingParameter(adOut.thrown)
        /\ adOut.http = 0

\* C15: fail fast.  For every carrier and every schedule or tracking
\* sub-adapter, a call that ends in a missing-required-parameter or
\* out-of-range-date error has sent no HTTP request to the vendor endpoint
\* and no OAuth2 token request.
C15_FailFast ==
    (adOut.done /\ (IsMissingParameter(adOut.thrown) \/ IsOutOfRange(adOut.thrown))) =>
        /\ adOut.call = Failed("param")
        /\ adOut.http = 0
        /\ adOut.tokens = 0

\* the OAuth2 carrier's Vessel Schedule adapter rejected a start date before
\* any token was asked for
C15_Witness ==
    /\ MaerskScheduleDone
    /\ authType["MAERSK"] = "oauth2"
    /\ adOut.delegated = <<"scheduleAdapter">>
    /\ adOut.thrown = StartOutOfRange
    /\ adOut.tokens = 0

(***************************************************************************)
(* Properties of the Maersk date guard (SpecDates).                        *)
(***************************************************************************)
\* the server's calendar day when the call is made
Today == LocalDay(adIn.clock, adIn.tz)

\* the whole-day window: d is before today - 90 or after today + 180
OutsideWindow(d) == d < Today - PastDays \/ d > Today + FutureDays

\* C16: Maersk date guard (whole days).  In the Vessel Schedule adapter a
\* supplied startDate or endDate d is rejected with the out-of-range error
\* iff d < today - 90 or d > today + 180; an absent date is never rejected.
C16_DateGuard ==
    (MaerskScheduleDone /\ adOut.delegated = <<"scheduleAdapter">>) =>
        /\ adOut.thrown = StartOutOfRange <=>
              ("startDate" \in adIn.params /\ OutsideWindow(adIn.startDate))
        /\ adOut.thrown = EndOutOfRange <=>
              (/\ ~("startDate" \in adIn.params /\ OutsideWindow(adIn.startDate))
               /\ "endDate" \in adIn.params /\ OutsideWindow(adIn.endDate))

(***************************************************************************)
(* Properties of the mappers (SpecMap).                                    *)
(***************************************************************************)
\* the ServiceSchedules the schedule mappers have returned
ServiceSchedules ==
    IF mapIn.mapper \in {"mapHMMScheduleToDCSA", "mapProformaToDCSA"}
    THEN UNION {Range(mapOut.runs[i].value) : i \in DOMAIN mapOut.runs}
    ELSE {}

VesselSchedules == UNION {Range(s.vesselSchedules) : s \in ServiceSchedules}

\* C17: no all-empty schedules.  Every ServiceSchedule a schedule mapper
\* returns has at least one VesselSchedule whose transportCalls list is
\* non-empty; a service that ends up with none is dropped from the output.
C17_NoEmptySchedules ==
    \A s \in ServiceSchedules :
        \E v \in Range(s.vesselSchedules) : v.transportCalls # <<>>

\* C18: dummy-vessel flag.  No VesselSchedule of a mapper's output carries
\* the sentinel IMO "0000000" (or an empty IMO) together with
\* isDummyVessel = false.
C18_DummyVesselFlag ==
    \A v \in VesselSchedules :
        (v.vessel # <<>> /\ v.vessel[1].vesselIMONumber \in {"0000000", ""})
            => v.isDummyVessel

\* the date-times the vendor gave with a tracking event
VendorDateTimes(e) == {e.eventCreatedDateTime, e.eventDateTime} \ {<<>>}

\* the date-times the vendor gave with the schedule items, converted
VendorMoments ==
    {convertHMMDateTime(m) :
        m \in {x \in UNION {{item.arrival, item.departure} : item \in Range(mapIn.payload)} :
                 Given(x) /\ ~ConvertThrows(x)}}

\* C19: no fabricated timestamps.  Every eventDateTime and
\* eventCreatedDateTime of a mapper's output is derived from a date/time
\* field of the vendor payload; where the vendor's field is missing the
\* mapping fails instead of substituting the clock time or another default.
C19_NoFabricatedTimestamps ==
    /\ mapIn.mapper = "mapHMMTrackingToDCSA" =>
          \A i \in DOMAIN mapOut.runs : \A j \in DOMAIN mapOut.runs[i].value :
              LET out == mapOut.runs[i].value[j]
              IN  /\ out.eventCreatedDateTime \in VendorDateTimes(mapIn.payload[j])
                  /\ out.eventDateTime \in VendorDateTimes(mapIn.payload[j])
    /\ mapIn.mapper = "mapHMMScheduleToDCSA" =>
          \A v \in VesselSchedules : \A c \in Range(v.transportCalls) :
              \A t \in Range(c.timestamps) : t.eventDateTime \in VendorMoments

\* C20: mapper determinism.  Applying the same mapper twice to the same
\* payload, at any two points in time, yields identical output, the
\* synthesized transportCallReference and transportCallID values included.
C20_MapperDeterminism ==
    \A i, j \in DOMAIN mapOut.runs : mapOut.runs[i] = mapOut.runs[j]


(***************************************************************************)
(* Properties of normalizeDateTime and of the transport-call mappers       *)
(* (SpecCalls), and of convertHMMDateTime (SpecMap).                       *)
(***************************************************************************)
\* the string ends with an offset designator: Z, +hh:mm or -hh:mm
EndsWithOffset(s) ==
    LET n == Len(s)
    IN  \/ n >= 1 /\ s[n] = "Z"
        \/ n >= 6 /\ s[n - 5] \in {"+", "-"} /\ s[n - 2] = ":"

\* C21: normalizeDateTime returns a date-time that contains 'T' unchanged when
\* it already carries an offset (a trailing Z, +hh:mm or -hh:mm), appends
\* exactly one 'Z' when it carries none, and never returns a string with two
\* offset designators.
C21_DateTimePassThrough ==
    (/\ mapIn.mapper = "normalizeDateTime"
     /\ \E i \in DOMAIN mapIn.payload : mapIn.payload[i] = "T")
        => \A r \in DOMAIN mapOut.runs :
              LET out == mapOut.runs[r]
                  n == Len(out.value)
              IN  /\ ~out.threw
                  /\ out.value = IF EndsWithOffset(mapIn.payload) THEN mapIn.payload
                                 ELSE Append(mapIn.payload, "Z")
                  /\ ~(out.value[n] = "Z" /\ EndsWithOffset(SubSeq(out.value, 1, n - 1)))


\* an item whose arrival has an 8-character date and a 4-character time
WellFormedArrival(item) == Len(item.arrival.date) = 8 /\ Len(item.arrival.time) = 4

\* the ARRI timestamps of a mapper's output, by their position
ArrivalTimestamps(value) ==
    {p \in {<<s, v, c, t>> : s \in DOMAIN value, v \in 1..MaxItems, c \in 1..MaxItems,
                             t \in 1..2} :
        /\ p[2] \in DOMAIN value[p[1]].vesselSchedules
        /\ p[3] \in DOMAIN value[p[1]].vesselSchedules[p[2]].transportCalls
        /\ p[4] \in DOMAIN value[p[1]].vesselSchedules[p[2]].transportCalls[p[3]].timestamps
        /\ value[p[1]].vesselSchedules[p[2]].transportCalls[p[3]].timestamps[p[4]].eventTypeCode
               = "ARRI"}

\* C22: for every HMM schedule item with an 8-character arrivalDate YYYYMMDD
\* and a 4-character arrivalTime HHMM, the mapped transport call carries a
\* timestamp with eventTypeCode ARRI and eventDateTime YYYY-MM-DDTHH:MM:00Z
\* (20210817 + 2100 gives 2021-08-17T21:00:00Z), the digits unshifted.
C22_HmmDateTime ==
    mapIn.mapper = "mapHMMScheduleToDCSA"
        => \A r \in DOMAIN mapOut.runs :
              LET out == mapOut.runs[r]
                  items == {i \in DOMAIN mapIn.payload : WellFormedArrival(mapIn.payload[i])}
                  iso(d, t) == <<d[1], d[2], d[3], d[4], "-", d[5], d[6], "-", d[7], d[8], "T",
                                 t[1], t[2], ":", t[3], t[4], ":", "0", "0", "Z">>
                  at(p) == out.value[p[1]].vesselSchedules[p[2]].transportCalls[p[3]]
              IN  ~out.threw
                     => /\ Cardinality(ArrivalTimestamps(out.value)) = Cardinality(items)
                        /\ \A i \in items :
                              \E p \in ArrivalTimestamps(out.value) :
                                  /\ at(p).UNLocationCode = mapIn.payload[i].portCode
                                  /\ at(p).timestamps[p[4]].eventDateTime
                                         = iso(mapIn.payload[i].arrival.date,
                                               mapIn.payload[i].arrival.time)

\* two items that arrive 20210817 at 2100 have been mapped, and both
\* transport calls carry ARRI 2021-08-17T21:00:00Z
C22_Witness ==
    /\ mapIn.mapper = "mapHMMScheduleToDCSA"
    /\ Len(mapIn.payload) = 2
    /\ \A i \in DOMAIN mapIn.payload :
          /\ mapIn.payload[i].arrival.date = <<"2", "0", "2", "1", "0", "8", "1", "7">>
          /\ mapIn.payload[i].arrival.time = <<"2", "1", "0", "0">>
    /\ mapOut.runs # <<>>
    /\ ~mapOut.runs[1].threw
    /\ Cardinality(ArrivalTimestamps(mapOut.runs[1].value)) = 2
    /\ \A p \in ArrivalTimestamps(mapOut.runs[1].value) :
          mapOut.runs[1].value[p[1]].vesselSchedules[p[2]].transportCalls[p[3]]
                .timestamps[p[4]].eventDateTime
              = <<"2", "0", "2", "1", "-", "0", "8", "-", "1", "7", "T",
                  "2", "1", ":", "0", "0", ":", "0", "0", "Z">>


(***************************************************************************)
(* Properties of the token cache shared by concurrent calls (SpecPair,     *)
(* SpecAuth) and of the fan-out (Spec).                                    *)
(***************************************************************************)
\* C23: no step taken on behalf of carrier A (cache hit, token request and
\* store, 401-triggered clearTokenCache(A), retry) changes or removes the
\* token cache entry of another carrier B: a step that changes a call of A
\* leaves every other carrier's entry as it was.
C23_CacheIsolation ==
    [][\A a \in Carriers :
          (\E q \in Queries : calls'[q][a] # calls[q][a])
              => \A b \in Carriers \ {a} : tokenCache'[b] = tokenCache[b]]_vars

\* Maersk's entry has been removed by the 401 handler, whose token request is
\* in flight, and CMA CGM's entry holds a token
C23_Witness ==
    /\ \E q \in Queries : calls[q]["MAERSK"].pc = "token" /\ calls[q]["MAERSK"].ctx = "retry"
    /\ tokenCache["MAERSK"] = NoToken
    /\ tokenCache["CMCG"].token # 0


\* C24: every fan-out query eventually produces a response, whatever the
\* vendors answer (a vendor that answers every request with 401 included),
\* provided every HTTP request and token request is answered or times out.
C24_FanOutTerminates ==
    \A q \in Queries : (query[q].status = "pending") ~> (query[q].status = "responded")


\* the transport calls of a mapper's output, by their position
TransportCallsAt(value) ==
    {p \in {<<s, v, c>> : s \in DOMAIN value, v \in 1..(MaxItems * MaxItems),
                          c \in 1..(MaxItems * MaxItems)} :
        /\ p[2] \in DOMAIN value[p[1]].vesselSchedules
        /\ p[3] \in DOMAIN value[p[1]].vesselSchedules[p[2]].transportCalls}

\* the service code found on the route's first VESSEL/BARGE leg
FirstVesselLegService(route) ==
    LET found == {i \in DOMAIN route.legs :
                     /\ route.legs[i].modeOfTransport \in {"VESSEL", "BARGE"}
                     /\ route.legs[i].carrierServiceCode # ""}
    IN  IF found = {} THEN "UNKNOWN_SERVICE"
        ELSE route.legs[CHOOSE i \in found : \A j \in found : i <= j].carrierServiceCode

\* C25: in the output of the Maersk point-to-point mapper every transport
\* call made from a leg of a route lies in the ServiceSchedule keyed by the
\* service code found on that route's first VESSEL/BARGE leg, also when later
\* VESSEL/BARGE legs of the route carry another service code; legs of any
\* other transport mode make no transport call.
C25_PtpGrouping ==
    mapIn.mapper = "mapPointToPointToDCSA"
        => \A r \in DOMAIN mapOut.runs :
              LET value == mapOut.runs[r].value
              IN  \A p \in TransportCallsAt(value) :
                     LET ref == value[p[1]].vesselSchedules[p[2]].transportCalls[p[3]]
                                    .transportCallReference
                         route == mapIn.payload[ref[2]]
                     IN  /\ route.legs[ref[3]].modeOfTransport \in {"VESSEL", "BARGE"}
                         /\ value[p[1]].carrierServiceCode = FirstVesselLegService(route)


\* C26: every TransportCall in the output of a schedule mapper carries at
\* least one Timestamp: a vendor call or leg without arrival and departure
\* time makes no TransportCall.
C26_TimestampPresence ==
    mapIn.mapper # "normalizeDateTime"
        => \A r \in DOMAIN mapOut.runs :
              LET value == mapOut.runs[r].value
              IN  \A p \in TransportCallsAt(value) :
                     value[p[1]].vesselSchedules[p[2]].transportCalls[p[3]].timestamps # <<>>


\* the response of q lists data and errors: it is the success response or
\* the collective failure
Listed(q) == Responded(q) /\ query[q].response.status \in {200, 503}

\* the place of carrier c in the requested carrier codes of q
Place(q, c) == CHOOSE i \in DOMAIN query[q].codes : query[q].codes[i] = c

\* C27: the order of the records in data and of the entries in errors does
\* not depend on the order in which the carrier calls complete: it follows
\* the order of the requested carrier codes and, within a carrier, the order
\* of the carrier's own records; with the carriers' results fixed this
\* leaves one list.
C27_CompletionOrder ==
    \A q \in Queries :
        Listed(q) =>
            LET data == query[q].response.data
                errors == query[q].response.errors
            IN  /\ \A i, j \in DOMAIN data :
                       i < j => \/ Place(q, data[i].src) < Place(q, data[j].src)
                                \/ data[i].src = data[j].src /\ data[i].idx < data[j].idx
                /\ \A i, j \in DOMAIN errors :
                       i < j => Place(q, errors[i].carrier) < Place(q, errors[j].carrier)
                /\ query[q].response.status = 200 =>
                       \A c \in Requested(q) :
                           Cardinality({j \in DOMAIN data : data[j].src = c})
                               = IF ReturnedRecords(q, c) THEN calls[q][c].n ELSE 0

\* a response for all four carriers: two carriers' records, one of them with
\* MaxRecs records, between two carriers' errors
C27_Witness ==
    \E q \in Queries :
        /\ Responded(q) /\ query[q].response.status = 200
        /\ query[q].codes = AdapterKeys
        /\ ErrorCarriers(query[q].response) = {"CMCG", "ZIM"}
        /\ calls[q]["HMM"].n = MaxRecs
        /\ calls[q]["MAERSK"].n >= 1
        /\ Len(query[q].response.data) = MaxRecs + calls[q]["MAERSK"].n

C29_NoStaleInvalidation ==
    [][\A c \in Carriers :
          (tokenCache[c] # NoToken /\ tokenCache'[c] = NoToken)
              => \E q \in Queries :
                    /\ calls[q][c].pc = "http"
                    /\ calls'[q][c] # calls[q][c]
                    /\ calls[q][c].sent = tokenCache[c].token]_vars


\* C30: a call of an API-key carrier is never retried: the answer to its one
\* HTTP attempt, a 401 or any other error included, settles the call, and
\* the token cache stays as it is; a request in flight is followed by a
\* token request or another attempt only for an OAuth2 carrier.
C30_ApiKeyNoRetry ==
    [][\A q \in Queries, c \in Carriers :
          /\ authType[c] = "apikey" =>
                 /\ calls'[q][c].attempts <= 1
                 /\ calls'[q][c].pc # "token"
                 /\ (calls[q][c].pc = "http" /\ calls'[q][c] # calls[q][c])
                        => calls'[q][c].pc = "done" /\ tokenCache' = tokenCache
          /\ (/\ calls[q][c].pc = "http"
              /\ calls'[q][c] # calls[q][c]
              /\ calls'[q][c].pc \in {"token", "http"})
                 => authType[c] = "oauth2"]_vars

\* in one fan-out HMM's call has ended with the HTTP error of its one
\* attempt while Maersk's call is at its second attempt
C30_Witness ==
    \E q \in Queries :
        /\ calls[q]["HMM"].pc = "done" /\ calls[q]["HMM"].error = "http"
        /\ calls[q]["MAERSK"].pc = "http" /\ calls[q]["MAERSK"].attempts = 2

=============================================================================
